---- MODULE Spec2Model ----
\* Model of the native frame pipeline of bitrot (decode -> transform -> encode
\* -> mux), its job registry and its path helpers.
\*   src/src-tauri/src/modes/pixelsort/jobs.rs   (PixelsortJobs, pixelsort_process)
\*   src/src-tauri/src/native/pipeline.rs        (paths_match, cleanup_file, ...)
\* block_shift_process, vaporwave_process and modulo_mapping_process repeat the
\* orchestration of pixelsort_process line for line (other tag, other transform).
EXTENDS Integers, Sequences, FiniteSets, TLC

\* ------------------------------------------------------------------ bounds
MaxCalls == 2          \* process calls made in one behaviour of Spec
MaxStream == 32        \* bytes a decoder delivers in Spec
MaxStreamSplice == 160 \* bytes a decoder delivers in SpecSplice
MaxDecodeErrors == 1   \* stderr / error events kept per job
MaxStreamProgress == 96 \* bytes the decoder emits where progress is logged
MaxPreviewTime == 32    \* seconds on the clock of the preview buffer store
MaxChunks == 2          \* chunks per upload where every split point is tried
MaxUnits == 4           \* start-code units in a datamosh input
MaxPieces == 4          \* pieces a datamosh input file is put together from

\* Option<T>: None is the empty tuple, Some(x) the tuple of x.
None == <<>>
Some(x) == <<x>>
Unwrap(o) == o[1]
UnwrapOr(o, d) == IF o = None THEN d ELSE o[1]
NoResult == "none"

\* ------------------------------------------------------------ text helpers
\* A string is a sequence of characters; a name without separators ("mp4",
\* "pixelsort") is kept as one element.
Space == " "
Quote == "\""
Backslash == "\\"
Slash == "/"
Dot == "."

RECURSIVE TrimStartMatches(_, _)
TrimStartMatches(s, cs) ==
  IF s # <<>> /\ Head(s) \in cs THEN TrimStartMatches(Tail(s), cs) ELSE s

RECURSIVE TrimEndMatches(_, _)
TrimEndMatches(s, cs) ==
  IF s # <<>> /\ s[Len(s)] \in cs
  THEN TrimEndMatches(SubSeq(s, 1, Len(s) - 1), cs)
  ELSE s

Trim(s) == TrimEndMatches(TrimStartMatches(s, {Space}), {Space})

TrimMatches(s, cs) == TrimEndMatches(TrimStartMatches(s, cs), cs)

Replace(s, from, to) == [i \in 1..Len(s) |-> IF s[i] = from THEN to ELSE s[i]]

ToAsciiLower(c) ==
  CASE c = "A" -> "a"
    [] c = "B" -> "b"
    [] c = "MP4" -> "mp4"
    [] c = "E" -> "e"
    [] c = "F" -> "f"
    [] c = "G" -> "g"
    [] c = "M" -> "m"
    [] c = "P" -> "p"
    [] OTHER -> c

ToLowercase(s) == [i \in 1..Len(s) |-> ToAsciiLower(s[i])]

IsAsciiAlphanumeric(c) == c \notin {Space, Quote, Backslash, Slash, Dot, "-", "_"}

\* ------------------------------------------------------------ path helpers
TargetWindows == FALSE

normalize_path_for_compare(value) ==
  TrimEndMatches(Replace(TrimMatches(Trim(value), {Quote}), Backslash, Slash), {Slash})

paths_match(left, right) ==
  LET l == normalize_path_for_compare(left)
      r == normalize_path_for_compare(right)
  IN IF l = <<>> \/ r = <<>> THEN FALSE
     ELSE IF TargetWindows THEN ToLowercase(l) = ToLowercase(r)
     ELSE l = r

\* Index of the last element of s that is in cs, 0 when there is none.
RECURSIVE LastIndexOf(_, _)
LastIndexOf(s, cs) ==
  IF s = <<>> THEN 0
  ELSE IF s[Len(s)] \in cs THEN Len(s)
  ELSE LastIndexOf(SubSeq(s, 1, Len(s) - 1), cs)

PathSeparators == IF TargetWindows THEN {Slash, Backslash} ELSE {Slash}

\* Path::file_name: the last component, none when the path is empty, is a root
\* or ends in "..". Trailing separators are ignored.
PathBody(path) == TrimEndMatches(path, PathSeparators)
FileNameStart(path) == LastIndexOf(PathBody(path), PathSeparators) + 1
FileName(path) ==
  LET body == PathBody(path)
      name == SubSeq(body, FileNameStart(path), Len(body))
  IN IF name = <<>> \/ name = <<Dot, Dot>> THEN None ELSE Some(name)

\* Path::file_stem: the name up to its last dot; a name that only starts with a
\* dot is its own stem.
FileStem(path) ==
  LET name == UnwrapOr(FileName(path), <<>>)
      dot == LastIndexOf(name, {Dot})
  IN IF FileName(path) = None THEN None
     ELSE IF dot <= 1 THEN Some(name)
     ELSE Some(SubSeq(name, 1, dot - 1))

\* Path::with_file_name: replace the last component (push when there is none).
WithFileName(path, name) ==
  IF FileName(path) = None
  THEN (IF path = <<>> \/ path[Len(path)] \in PathSeparators
        THEN path ELSE path \o <<Slash>>) \o name
  ELSE SubSeq(path, 1, FileNameStart(path) - 1) \o name

build_temp_video_path(output_path, format, tag) ==
  LET stem == UnwrapOr(FileStem(output_path), <<"native">>)
      clean_format == ToLowercase(TrimStartMatches(Trim(format), {Dot}))
      extension == IF clean_format = <<>> THEN <<"mp4">> ELSE clean_format
      safe_tag == [i \in 1..Len(tag) |-> IF IsAsciiAlphanumeric(tag[i]) THEN tag[i] ELSE "-"]
  IN WithFileName(output_path, stem \o <<Dot>> \o safe_tag \o <<Dot, "video", Dot>> \o extension)

build_preview_path(tag) ==
  LET safe_tag == [i \in 1..Len(tag) |-> IF IsAsciiAlphanumeric(tag[i]) THEN tag[i] ELSE "_"]
  IN <<"tmp", Slash, "bitrot-preview-">> \o safe_tag \o <<Dot, "png">>

\* ------------------------------------------------------------- job inputs
AllProcs == {1, 2}     \* slots for process calls that may run at a time
Procs == {1}           \* slots used by Spec and SpecSplice

JobIds == {<<"j1">>, <<"j2">>}
InputPath == <<"a", Dot, "mp4">>
OtherPath == <<"b", Dot, "mp4">>
OutputPaths == {<<Quote, "a", Dot, "mp4", Quote, Space>>, OtherPath}
Dims == {<<1, 2>>, <<2, 1>>, <<3, 2>>}
DimsSplice == {<<3, 2>>, <<4, 2>>}
EncodingFormat == <<Dot, "MP4">>
Tag == <<"pixelsort">>
ChunkSizes == {16, 32}
ExitCodes == {Some(0), Some(1), None}

DefaultFps == {30}
CallsOf(inputs, ids, outputs, dims, previews, rates) ==
  [job_id : ids, input_path : inputs, output_path : outputs,
   dim : dims, preview_enabled : previews, fps : rates]
Calls(ids, outputs, dims, previews) ==
  CallsOf({InputPath}, ids, outputs, dims, previews, DefaultFps)

\* ------------------------------------------------------------------ state
VARIABLES
  registry,    \* PixelsortJobs: job id -> cancel flag (0: no entry)
  flags,       \* the Arc<AtomicBool> cancel flags, by allocation number
  calls,       \* process calls made so far (= flags allocated so far)
  files,       \* paths at which a file exists
  cancel_ret,  \* what the last pixelsort_cancel returned
  job,         \* per call: the locals of pixelsort_process
  child,       \* per call: its child processes and what was issued to them
  tasks,       \* per cancel flag number: the preview tasks of that call
  buffers,     \* PreviewBuffers: preview id -> Option<PreviewBuffer>
  clock,       \* Instant::now(), in seconds
  preview_ret, \* the last preview RPC and what it returned
  chunk_log,   \* history: per id, the chunk lengths accepted since its start
  pruned,      \* history: the ids whose entries the last RPC pruned
  dm,          \* the arguments and locals of one process_datamosh call
  fx,          \* one frame transform call: its arguments and its result
  enc,         \* one call of an argument builder: its arguments and its result
  ff           \* the ffmpeg job commands: FfmpegJobs and the last call

pipeline == <<registry, flags, calls, files, cancel_ret, job, child, tasks>>
previews == <<buffers, clock, preview_ret, chunk_log, pruned>>
vars == <<registry, flags, calls, files, cancel_ret, job, child, tasks,
          buffers, clock, preview_ret, chunk_log, pruned, dm, fx, enc, ff>>
\* What the actions of one component leave alone.
beside_pipeline == <<previews, dm, fx, enc, ff>>
beside_previews == <<pipeline, dm, fx, enc, ff>>
beside_datamosh == <<pipeline, previews, fx, enc, ff>>
beside_frames == <<pipeline, previews, dm, enc, ff>>
beside_args == <<pipeline, previews, dm, fx, ff>>
beside_ffmpeg == <<pipeline, previews, dm, fx, enc>>

IdleJob ==
  [pc |-> "idle", job_id |-> <<>>, input_path |-> <<>>, output_path |-> <<>>,
   width |-> 0, height |-> 0, preview_enabled |-> FALSE, cancel_flag |-> 0,
   frame_size |-> 0, temp_video |-> <<>>, preview_path |-> None,
   buffer |-> <<>>, read_offset |-> 0, processed |-> None, processed_frames |-> 0,
   decode_exit_code |-> None, decode_errors |-> 0, result |-> NoResult,
   pre_registry |-> <<>>, pre_files |-> {},
   fps |-> 0, preview_every |-> 0, last_preview_frame |-> 0]

\* The preview side of one call: the preview_inflight latch, the spawned
\* tasks that have not ended, and the frames of the Preview events emitted.
IdleTasks == [inflight |-> FALSE, live |-> {}, emitted |-> <<>>]

IdleChild ==
  [decoder |-> "none", encoder |-> "none", encode_code |-> None,
   stdin_closed |-> FALSE, delivered |-> 0, writes |-> <<>>,
   kills |-> {}, cleaned |-> {}, mux |-> "none", progress |-> <<>>]

PreviewIds == {<<"p1">>, <<"p2">>}
\* The outcome of a preview RPC; `buffer` is what PreviewBuffers::finish
\* handed to the handler.
PreviewRet(op, preview_id, result, buffer) ==
  [op |-> op, preview_id |-> preview_id, result |-> result, buffer |-> buffer]

InitPreviews ==
  /\ buffers = [id \in PreviewIds |-> None]
  /\ clock = 0
  /\ preview_ret = PreviewRet("none", <<>>, NoResult, None)
  /\ chunk_log = [id \in PreviewIds |-> <<>>]
  /\ pruned = {}

\* No datamosh call has been made.
IdleDatamosh ==
  [pc |-> "idle", units |-> <<>>, fps |-> 0, windows |-> <<>>, intensity |-> 0,
   extradata_bytes |-> <<>>, rng |-> <<0, 0>>, has_reference_intra_vop |-> FALSE,
   vop_index |-> 0, has_units |-> FALSE, has_vop |-> FALSE,
   window_drop_started |-> <<>>, window_cursor |-> 0, pos |-> 0,
   output |-> <<>>, kept |-> <<>>, result |-> NoResult,
   source |-> <<>>, input |-> <<>>, buffer |-> <<>>, eof |-> FALSE, aligned |-> FALSE,
   draws |-> 0]

\* No frame transform, argument builder or ffmpeg job command has been called.
IdleFx == [pc |-> "idle"]
IdleEnc == [pc |-> "idle"]
IdleFf == [pc |-> "idle"]
InitCalls ==
  /\ fx = IdleFx
  /\ enc = IdleEnc
  /\ ff = IdleFf

\* No pixelsort job has been started.
InitPipeline ==
  /\ registry = [id \in JobIds |-> 0]
  /\ flags = [f \in 1..MaxCalls |-> FALSE]
  /\ calls = 0
  /\ files = {InputPath}
  /\ cancel_ret = NoResult
  /\ job = [p \in AllProcs |-> IdleJob]
  /\ child = [p \in AllProcs |-> IdleChild]
  /\ tasks = [n \in 1..MaxCalls |-> IdleTasks]

Init ==
  /\ InitPreviews
  /\ InitCalls
  /\ dm = IdleDatamosh
  /\ registry = [id \in JobIds |-> 0]
  /\ flags = [f \in 1..MaxCalls |-> FALSE]
  /\ calls = 0
  /\ files \in {{InputPath}, {InputPath, OtherPath}}
  /\ cancel_ret = NoResult
  /\ job = [p \in AllProcs |-> IdleJob]
  /\ child = [p \in AllProcs |-> IdleChild]
  /\ tasks = [n \in 1..MaxCalls |-> IdleTasks]

\* ----------------------------------------------------------- PixelsortJobs
register(reg, job_id, flag) == [reg EXCEPT ![job_id] = flag]

\* cancel that does not look the id up before it reports success.
cancelUnchecked(reg, fl, job_id) ==
  [ok |-> TRUE,
   flags |-> IF reg[job_id] # 0 THEN [fl EXCEPT ![reg[job_id]] = TRUE] ELSE fl]

cancel(reg, fl, job_id) ==
  IF reg[job_id] # 0
  THEN [ok |-> TRUE, flags |-> [fl EXCEPT ![reg[job_id]] = TRUE]]
  ELSE [ok |-> FALSE, flags |-> fl]

\* finish that leaves the entry in place.
finishKeeps(reg, job_id) == reg

finish(reg, job_id) == [reg EXCEPT ![job_id] = 0]

\* pixelsort_cancel(job_id)
pixelsort_cancel(job_id) ==
  /\ flags' = cancel(registry, flags, job_id).flags
  /\ cancel_ret' = IF cancel(registry, flags, job_id).ok THEN "Ok" ELSE "Unknown pixelsort job"
  /\ UNCHANGED <<registry, calls, files, job, child, tasks>>

\* ------------------------------------------------------------ cleanup_file
cleanup_file(fs, path) == fs \ {path}

\* The three deletions every failure path after the decode loop issues.
CleanupAll(fs, j) ==
  LET fs1 == cleanup_file(cleanup_file(fs, j.temp_video), j.output_path)
  IN IF j.preview_path # None THEN cleanup_file(fs1, Unwrap(j.preview_path)) ELSE fs1

CleanupAllPaths(j) ==
  {j.temp_video, j.output_path} \cup (IF j.preview_path # None THEN {Unwrap(j.preview_path)} ELSE {})

Returned(j, res) == [j EXCEPT !.pc = "done", !.result = res]

\* ---------------------------------------------------- pixelsort_process
\* Lines 189-194: the same-path check, then register and the start log.
Start(p, call, max_calls) ==
  /\ job[p].pc = "idle"
  /\ calls < max_calls
  /\ LET j == [IdleJob EXCEPT !.job_id = call.job_id, !.input_path = call.input_path,
                 !.output_path = call.output_path, !.width = call.dim[1],
                 !.height = call.dim[2], !.preview_enabled = call.preview_enabled,
                 !.fps = call.fps,
                 !.pre_registry = registry, !.pre_files = files]
     IN IF paths_match(call.input_path, call.output_path)
        THEN /\ job' = [job EXCEPT ![p] = Returned(j, "SamePath")]
             /\ UNCHANGED <<registry, flags, calls>>
        ELSE /\ calls' = calls + 1
             /\ flags' = [flags EXCEPT ![calls + 1] = FALSE]
             /\ registry' = register(registry, call.job_id, calls + 1)
             /\ job' = [job EXCEPT ![p] = [j EXCEPT !.pc = "validate", !.cancel_flag = calls + 1]]
  /\ UNCHANGED <<files, cancel_ret, child, tasks>>

SafeDim(d) == IF d % 2 = 0 THEN d ELSE d - 1

Max(a, b) == IF a >= b THEN a ELSE b
Min(a, b) == IF a <= b THEN a ELSE b
SaturatingSub(a, b) == IF a >= b THEN a - b ELSE 0
DEFAULT_FPS == 30
MIN_PREVIEW_EVERY == 5
MAX_PREVIEW_EVERY == 60
\* Lines 212 and 261-266: frames between two previews, half a second of
\* video within 5..60, and 0 when previews are off; fps is a whole number
\* here, so round(fps / 2) is (fps + 1) \div 2.
preview_interval(fps, preview_enabled) ==
  LET safe_fps == IF fps > 0 THEN fps ELSE DEFAULT_FPS
      interval == (safe_fps + 1) \div 2
  IN IF preview_enabled
     THEN Min(Max(interval, MIN_PREVIEW_EVERY), MAX_PREVIEW_EVERY)
     ELSE 0

\* Lines 196-237: the dimension check and the derived values.
Validate(p) ==
  /\ job[p].pc = "validate"
  /\ LET j == job[p]
     IN IF j.width < 2 \/ j.height < 2
        THEN /\ files' = cleanup_file(files, j.output_path)
             /\ child' = [child EXCEPT ![p].cleaned = @ \cup {j.output_path}]
             /\ registry' = finish(registry, j.job_id)
             /\ job' = [job EXCEPT ![p] = Returned(j, "InvalidDims")]
        ELSE /\ job' = [job EXCEPT ![p] =
                  [j EXCEPT !.pc = "spawn_decoder",
                            !.frame_size = SafeDim(j.width) * SafeDim(j.height) * 4,
                            !.temp_video = build_temp_video_path(j.output_path, EncodingFormat, Tag),
                            !.preview_path = IF j.preview_enabled
                                             THEN Some(build_preview_path(j.job_id)) ELSE None,
                            !.preview_every = preview_interval(j.fps, j.preview_enabled)]]
             /\ UNCHANGED <<files, child, registry>>
  /\ UNCHANGED <<flags, calls, cancel_ret, tasks>>

\* Lines 244-246: spawn the decoder; a failure returns through `?`.
SpawnDecoder(p, ok) ==
  /\ job[p].pc = "spawn_decoder"
  /\ IF ok
     THEN /\ child' = [child EXCEPT ![p].decoder = "running"]
          /\ job' = [job EXCEPT ![p].pc = "spawn_encoder"]
     ELSE /\ job' = [job EXCEPT ![p] = Returned(@, "SpawnDecoder")]
          /\ UNCHANGED child
  /\ UNCHANGED <<registry, flags, calls, files, cancel_ret, tasks>>

\* Lines 247-276: spawn the encoder (it opens the temp video) and the task
\* that drains its events; a failure returns through `?`.
SpawnEncoder(p, ok) ==
  /\ job[p].pc = "spawn_encoder"
  /\ IF ok
     THEN /\ child' = [child EXCEPT ![p].encoder = "running"]
          /\ files' = files \cup {job[p].temp_video}
          /\ job' = [job EXCEPT ![p].pc = "recv"]
     ELSE /\ job' = [job EXCEPT ![p] = Returned(@, "SpawnEncoder")]
          /\ UNCHANGED <<child, files>>
  /\ UNCHANGED <<registry, flags, calls, cancel_ret, tasks>>

\* ------------------------------------------------------------ decode loop
\* The decoder's stdout: byte i of the stream (the synthetic decoder numbers
\* its bytes, so every frame differs from every other).
StreamByte(i) == i % 256
StreamBytes(from, n) == [k \in 1..n |-> StreamByte(from + k - 1)]

\* Line 341: what the transform is applied to; the encoder is written the
\* transform of this frame under this frame index.
Processed(frame, frame_index) == [frame |-> frame, frame_index |-> frame_index]

CancelFlag(p) == job[p].cancel_flag # 0 /\ flags[job[p].cancel_flag]

\* Lines 321-332: the poll at the top of an iteration finds the flag set.
CancelObserved(p) ==
  /\ job[p].pc = "recv"
  /\ child[p].decoder = "running"
  /\ CancelFlag(p)
  /\ child' = [child EXCEPT ![p].kills = @ \cup {"decoder", "encoder"},
                            ![p].decoder = "killed",
                            ![p].encoder = IF @ = "running" THEN "killed" ELSE @,
                            ![p].cleaned = @ \cup CleanupAllPaths(job[p])]
  /\ files' = CleanupAll(files, job[p])
  /\ registry' = finish(registry, job[p].job_id)
  /\ job' = [job EXCEPT ![p] = Returned(@, "Canceled")]
  /\ UNCHANGED <<flags, calls, cancel_ret, tasks>>

\* A Stdout event handled without the poll of the cancel flag.
HandleStdoutUnpolled(p, n, max) ==
  /\ job[p].pc = "recv"
  /\ child[p].decoder = "running"
  /\ child[p].delivered + n <= max
  /\ LET buffer == job[p].buffer \o StreamBytes(child[p].delivered, n)
     IN job' = [job EXCEPT ![p].buffer = buffer,
                           ![p].pc = IF Len(buffer) - job[p].read_offset >= job[p].frame_size
                                     THEN "frames" ELSE "recv"]
  /\ child' = [child EXCEPT ![p].delivered = @ + n]
  /\ UNCHANGED <<registry, flags, calls, files, cancel_ret, tasks>>

\* Lines 335-337: a Stdout event; the bytes are appended to the buffer.
HandleStdout(p, n, max) ==
  /\ job[p].pc = "recv"
  /\ child[p].decoder = "running"
  /\ ~CancelFlag(p)
  /\ child[p].delivered + n <= max
  /\ LET buffer == job[p].buffer \o StreamBytes(child[p].delivered, n)
     IN job' = [job EXCEPT ![p].buffer = buffer,
                           ![p].pc = IF Len(buffer) - job[p].read_offset >= job[p].frame_size
                                     THEN "frames" ELSE "recv"]
  /\ child' = [child EXCEPT ![p].delivered = @ + n]
  /\ UNCHANGED <<registry, flags, calls, files, cancel_ret, tasks>>

\* Compaction that keeps one byte too many of the consumed prefix.
CompactOffByOne(buffer, read_offset, frame_size) ==
  IF read_offset >= frame_size * 4
  THEN [buffer |-> SubSeq(buffer, read_offset, Len(buffer)), read_offset |-> 0]
  ELSE IF read_offset = Len(buffer)
  THEN [buffer |-> <<>>, read_offset |-> 0]
  ELSE [buffer |-> buffer, read_offset |-> read_offset]

\* Compaction that only clears a fully consumed buffer.
CompactNever(buffer, read_offset, frame_size) ==
  IF read_offset = Len(buffer)
  THEN [buffer |-> <<>>, read_offset |-> 0]
  ELSE [buffer |-> buffer, read_offset |-> read_offset]

\* Lines 347-355: compaction after a frame was written.
Compact(buffer, read_offset, frame_size) ==
  IF read_offset >= frame_size * 4
  THEN [buffer |-> SubSeq(buffer, read_offset + 1, Len(buffer)), read_offset |-> 0]
  ELSE IF read_offset = Len(buffer)
  THEN [buffer |-> <<>>, read_offset |-> 0]
  ELSE [buffer |-> buffer, read_offset |-> read_offset]

\* Lines 337-341: the head of the frame loop slices and transforms a frame.
BeginFrame(p) ==
  /\ job[p].pc = "frames"
  /\ LET j == job[p]
         end == j.read_offset + j.frame_size
         frame == SubSeq(j.buffer, j.read_offset + 1, end)
     IN job' = [job EXCEPT ![p] =
          [j EXCEPT !.read_offset = end,
                    !.processed = Some(Processed(frame, j.processed_frames)),
                    !.pc = "write"]]
  /\ UNCHANGED <<registry, flags, calls, files, cancel_ret, child, tasks>>

\* A progress event that carries the index of the frame last written
\* instead of the number of frames written.
emitFrameIndex(log, frame) == Append(log, frame - 1)

\* Lines 277-316: the closure emits one pixelsort-progress event carrying
\* `frame`; the log is the sequence of frame counts emitted so far.
emit_progress_update(log, frame) == Append(log, frame)

\* Lines 358-360: a preview is due when previews are on, preview_every
\* frames have been written since the last launch and no task holds the latch.
previewDueIgnoresLatch(preview_every, processed_frames, last_preview_frame, inflight) ==
  /\ preview_every > 0
  /\ SaturatingSub(processed_frames, last_preview_frame) >= preview_every

preview_due(preview_every, processed_frames, last_preview_frame, inflight) ==
  /\ preview_every > 0
  /\ SaturatingSub(processed_frames, last_preview_frame) >= preview_every
  /\ ~inflight

\* Lines 362-392: the latch is set and the task is spawned with its own copy
\* of the frame index and of the preview path.
PreviewTask(frame, path, pc, outcome) ==
  [frame |-> frame, path |-> path, pc |-> pc, outcome |-> outcome]
spawn_preview(t, frame, path) ==
  [t EXCEPT !.inflight = TRUE,
            !.live = @ \cup {PreviewTask(frame, path, "encode", "none")}]

\* Lines 342-400: the frame is written to the encoder (a failure returns
\* through `?`), then the buffer is compacted; `elapsed` says whether more
\* than 200 ms have passed since the last progress event (lines 396-399).
WriteFrame(p, elapsed) ==
  /\ job[p].pc = "write"
  /\ LET j == job[p]
         c == Compact(j.buffer, j.read_offset, j.frame_size)
         frames == j.processed_frames + 1
         launch == /\ j.preview_path # None
                   /\ preview_due(j.preview_every, frames, j.last_preview_frame,
                                  tasks[j.cancel_flag].inflight)
     IN IF child[p].encoder # "running"
        THEN /\ job' = [job EXCEPT ![p] = Returned(j, "WriteFailed")]
             /\ UNCHANGED <<child, tasks>>
        ELSE /\ child' = [child EXCEPT
                  ![p].writes = Append(@, Unwrap(j.processed)),
                  ![p].progress = IF elapsed
                                  THEN emit_progress_update(@, j.processed_frames + 1)
                                  ELSE @]
             /\ job' = [job EXCEPT ![p] =
                  [j EXCEPT !.buffer = c.buffer, !.read_offset = c.read_offset,
                            !.processed = None,
                            !.processed_frames = frames,
                            !.last_preview_frame = IF launch THEN frames ELSE @,
                            !.pc = IF Len(c.buffer) - c.read_offset >= j.frame_size
                                   THEN "frames" ELSE "recv"]]
             /\ tasks' = IF launch
                         THEN [tasks EXCEPT ![j.cancel_flag] =
                                 spawn_preview(@, frames, Unwrap(j.preview_path))]
                         ELSE tasks
  /\ UNCHANGED <<registry, flags, calls, files, cancel_ret>>

\* Lines 402-412: a Stderr line or an Error event of the decoder.
HandleStderr(p) ==
  /\ job[p].pc = "recv"
  /\ child[p].decoder = "running"
  /\ ~CancelFlag(p)
  /\ job[p].decode_errors < MaxDecodeErrors
  /\ job' = [job EXCEPT ![p].decode_errors = @ + 1]
  /\ UNCHANGED <<registry, flags, calls, files, cancel_ret, child, tasks>>

\* read_until_terminated: the exit code of the encoder, -1 when it has none.
read_until_terminated(code) == UnwrapOr(code, -1)

\* The Terminated event handled without the poll of the cancel flag.
HandleTerminatedUnpolled(p, code) ==
  /\ job[p].pc = "recv"
  /\ child[p].decoder = "running"
  /\ LET j == [job[p] EXCEPT !.decode_exit_code = code]
     IN IF UnwrapOr(j.decode_exit_code, -1) # 0
        THEN /\ child' = [child EXCEPT ![p].decoder = "exited",
                                       ![p].kills = @ \cup {"encoder"},
                                       ![p].encoder = IF @ = "running" THEN "killed" ELSE @,
                                       ![p].cleaned = @ \cup CleanupAllPaths(j)]
             /\ files' = CleanupAll(files, j)
             /\ registry' = finish(registry, j.job_id)
             /\ job' = [job EXCEPT ![p] = Returned(j, "DecoderFailed")]
        ELSE /\ child' = [child EXCEPT
                  ![p].decoder = "exited", ![p].stdin_closed = TRUE,
                  ![p].progress = emit_progress_update(@, j.processed_frames)]
             /\ job' = [job EXCEPT ![p] = [j EXCEPT !.pc = "drain"]]
             /\ UNCHANGED <<files, registry>>
  /\ UNCHANGED <<flags, calls, cancel_ret, tasks>>

\* Lines 413-442: the decoder's Terminated event and the check after the loop.
HandleTerminated(p, code) ==
  /\ job[p].pc = "recv"
  /\ child[p].decoder = "running"
  /\ ~CancelFlag(p)
  /\ LET j == [job[p] EXCEPT !.decode_exit_code = code]
     IN IF UnwrapOr(j.decode_exit_code, -1) # 0
        THEN /\ child' = [child EXCEPT ![p].decoder = "exited",
                                       ![p].kills = @ \cup {"encoder"},
                                       ![p].encoder = IF @ = "running" THEN "killed" ELSE @,
                                       ![p].cleaned = @ \cup CleanupAllPaths(j)]
             /\ files' = CleanupAll(files, j)
             /\ registry' = finish(registry, j.job_id)
             /\ job' = [job EXCEPT ![p] = Returned(j, "DecoderFailed")]
        ELSE /\ child' = [child EXCEPT
                  ![p].decoder = "exited", ![p].stdin_closed = TRUE,
                  ![p].progress = emit_progress_update(@, j.processed_frames)]
             /\ job' = [job EXCEPT ![p] = [j EXCEPT !.pc = "drain"]]
             /\ UNCHANGED <<files, registry>>
  /\ UNCHANGED <<flags, calls, cancel_ret, tasks>>

\* The encoder process ends: with 0 only once its stdin was closed, with a
\* failure at any time.
EncoderExit(p, code) ==
  /\ child[p].encoder = "running"
  /\ job[p].pc \in {"recv", "frames", "write", "drain"}
  /\ code = Some(0) => child[p].stdin_closed
  /\ child' = [child EXCEPT ![p].encoder = "exited", ![p].encode_code = code]
  /\ UNCHANGED <<registry, flags, calls, files, cancel_ret, job, tasks>>

\* Lines 444-456: the encoder's event task has ended.
AwaitEncoder(p) ==
  /\ job[p].pc = "drain"
  /\ child[p].encoder = "exited"
  /\ IF read_until_terminated(child[p].encode_code) # 0
     THEN /\ child' = [child EXCEPT ![p].cleaned = @ \cup CleanupAllPaths(job[p])]
          /\ files' = CleanupAll(files, job[p])
          /\ registry' = finish(registry, job[p].job_id)
          /\ job' = [job EXCEPT ![p] = Returned(@, "EncoderFailed")]
     ELSE /\ job' = [job EXCEPT ![p].pc = "mux"]
          /\ UNCHANGED <<child, files, registry>>
  /\ UNCHANGED <<flags, calls, cancel_ret, tasks>>

\* Lines 458-471 with run_ffmpeg_output: the mux process is spawned, or not.
MuxSpawn(p, ok) ==
  /\ job[p].pc = "mux"
  /\ IF ok
     THEN /\ child' = [child EXCEPT ![p].mux = "running"]
          /\ job' = [job EXCEPT ![p].pc = "muxing"]
          /\ UNCHANGED <<files, registry>>
     ELSE /\ child' = [child EXCEPT ![p].cleaned = @ \cup CleanupAllPaths(job[p])]
          /\ files' = CleanupAll(files, job[p])
          /\ registry' = finish(registry, job[p].job_id)
          /\ job' = [job EXCEPT ![p] = Returned(@, "MuxSpawn")]
  /\ UNCHANGED <<flags, calls, cancel_ret, tasks>>

\* Lines 458-479: the mux process has ended.
MuxExit(p, success) ==
  /\ job[p].pc = "muxing"
  /\ IF success
     THEN /\ child' = [child EXCEPT ![p].mux = "exited",
                 ![p].cleaned = @ \cup (CleanupAllPaths(job[p]) \ {job[p].output_path})]
          /\ files' = LET fs == cleanup_file(files \cup {job[p].output_path}, job[p].temp_video)
                      IN IF job[p].preview_path # None
                         THEN cleanup_file(fs, Unwrap(job[p].preview_path)) ELSE fs
          /\ job' = [job EXCEPT ![p] = Returned(@, "Ok")]
     ELSE /\ child' = [child EXCEPT ![p].mux = "exited",
                 ![p].cleaned = @ \cup CleanupAllPaths(job[p])]
          /\ files' = CleanupAll(files \cup {job[p].output_path}, job[p])
          /\ job' = [job EXCEPT ![p] = Returned(@, "MuxFailed")]
  /\ registry' = finish(registry, job[p].job_id)
  /\ UNCHANGED <<flags, calls, cancel_ret, tasks>>

\* The call's result has been delivered; the slot is free for the next call.
Return(p, max_calls) ==
  /\ job[p].pc = "done"
  /\ calls < max_calls
  /\ job' = [job EXCEPT ![p] = IdleJob]
  /\ child' = [child EXCEPT ![p] = IdleChild]
  /\ UNCHANGED <<registry, flags, calls, files, cancel_ret, tasks>>

\* ---------------------------------------------------------- specifications
Next ==
  \/ \E p \in Procs, call \in Calls(JobIds, OutputPaths, Dims, BOOLEAN) : Start(p, call, MaxCalls) /\ UNCHANGED beside_pipeline
  \/ \E p \in Procs : Validate(p) /\ UNCHANGED beside_pipeline
  \/ \E p \in Procs, ok \in BOOLEAN : SpawnDecoder(p, ok) /\ UNCHANGED beside_pipeline
  \/ \E p \in Procs, ok \in BOOLEAN : SpawnEncoder(p, ok) /\ UNCHANGED beside_pipeline
  \/ \E p \in Procs : CancelObserved(p) /\ UNCHANGED beside_pipeline
  \/ \E p \in Procs, n \in ChunkSizes : HandleStdout(p, n, MaxStream) /\ UNCHANGED beside_pipeline
  \/ \E p \in Procs : BeginFrame(p) /\ UNCHANGED beside_pipeline
  \/ \E p \in Procs : WriteFrame(p, FALSE) /\ UNCHANGED beside_pipeline
  \/ \E p \in Procs : HandleStderr(p) /\ UNCHANGED beside_pipeline
  \/ \E p \in Procs, code \in ExitCodes : HandleTerminated(p, code) /\ UNCHANGED beside_pipeline
  \/ \E p \in Procs, code \in ExitCodes : EncoderExit(p, code) /\ UNCHANGED beside_pipeline
  \/ \E p \in Procs : AwaitEncoder(p) /\ UNCHANGED beside_pipeline
  \/ \E p \in Procs, ok \in BOOLEAN : MuxSpawn(p, ok) /\ UNCHANGED beside_pipeline
  \/ \E p \in Procs, ok \in BOOLEAN : MuxExit(p, ok) /\ UNCHANGED beside_pipeline
  \/ \E p \in Procs : Return(p, MaxCalls) /\ UNCHANGED beside_pipeline
  \/ \E id \in JobIds : pixelsort_cancel(id) /\ UNCHANGED beside_pipeline

Spec == Init /\ [][Next]_vars

\* One job at a time, every way of cutting the decoder's stream into chunks.
NextSplice ==
  \/ \E p \in Procs, call \in Calls({<<"j1">>}, {OtherPath}, DimsSplice, {FALSE}) :
       Start(p, call, MaxCalls) /\ UNCHANGED beside_pipeline
  \/ \E p \in Procs : Validate(p) /\ UNCHANGED beside_pipeline
  \/ \E p \in Procs : SpawnDecoder(p, TRUE) /\ UNCHANGED beside_pipeline
  \/ \E p \in Procs : SpawnEncoder(p, TRUE) /\ UNCHANGED beside_pipeline
  \/ \E p \in Procs, n \in 1..MaxStreamSplice : HandleStdout(p, n, MaxStreamSplice) /\ UNCHANGED beside_pipeline
  \/ \E p \in Procs : BeginFrame(p) /\ UNCHANGED beside_pipeline
  \/ \E p \in Procs : WriteFrame(p, FALSE) /\ UNCHANGED beside_pipeline
  \/ \E p \in Procs, code \in ExitCodes : HandleTerminated(p, code) /\ UNCHANGED beside_pipeline
  \/ \E p \in Procs, code \in ExitCodes : EncoderExit(p, code) /\ UNCHANGED beside_pipeline

SpecSplice == Init /\ [][NextSplice]_vars

\* One job whose progress timer may or may not have run out at each frame.
DimsProgress == {<<3, 2>>}
ChunkSizesProgress == {24, 48}
NextProgress ==
  \/ \E p \in Procs, call \in Calls({<<"j1">>}, {OtherPath}, DimsProgress, {FALSE}) :
       Start(p, call, MaxCalls) /\ UNCHANGED beside_pipeline
  \/ \E p \in Procs : Validate(p) /\ UNCHANGED beside_pipeline
  \/ \E p \in Procs : SpawnDecoder(p, TRUE) /\ UNCHANGED beside_pipeline
  \/ \E p \in Procs : SpawnEncoder(p, TRUE) /\ UNCHANGED beside_pipeline
  \/ \E p \in Procs, n \in ChunkSizesProgress : HandleStdout(p, n, MaxStreamProgress) /\ UNCHANGED beside_pipeline
  \/ \E p \in Procs : BeginFrame(p) /\ UNCHANGED beside_pipeline
  \/ \E p \in Procs, elapsed \in BOOLEAN : WriteFrame(p, elapsed) /\ UNCHANGED beside_pipeline
  \/ \E p \in Procs, code \in ExitCodes : HandleTerminated(p, code) /\ UNCHANGED beside_pipeline
  \/ \E p \in Procs, code \in ExitCodes : EncoderExit(p, code) /\ UNCHANGED beside_pipeline

SpecProgress == Init /\ [][NextProgress]_vars

TypeOK ==
  /\ registry \in [JobIds -> 0..MaxCalls]
  /\ calls \in 0..MaxCalls
  /\ \A p \in AllProcs : job[p].read_offset <= Len(job[p].buffer)

\* ---------------------------------------------------------- PreviewBuffers
PREVIEW_BUFFER_TTL == 30

PreviewDims == {<<1, 2>>, <<2, 2>>, <<2, 3>>}
PreviewChunkLens == {0, 8, 17}
TickSteps == {15, 16}

\* The RGBA bytes a client uploads under an id, by position from 0.
PayloadByte(id, i) == IF id = <<"p1">> THEN i ELSE 100 + i
\* The next `n` bytes of the upload, `sent` bytes having been accepted.
Chunk(id, sent, n) == [i \in 1..n |-> PayloadByte(id, sent + i - 1)]
Payload(id, n) == Chunk(id, 0, n)

\* preview_expected_len: the products of the dimensions modelled are far
\* below usize::MAX, so checked_mul never fails here.
preview_expected_len(width, height) ==
  IF width < 2 \/ height < 2 THEN None ELSE Some(width * height * 4)

PreviewBuffer(width, height, expected_len, data, last_updated) ==
  [width |-> width, height |-> height, expected_len |-> expected_len,
   data |-> data, last_updated |-> last_updated]

InFlight(lock, id) == lock[id] # None
Age(lock, id, now) == now - Unwrap(lock[id]).last_updated
Stale(lock, id, now) == InFlight(lock, id) /\ Age(lock, id, now) > PREVIEW_BUFFER_TTL

\* A prune that also drops the entries updated exactly 30 s ago.
pruneStrict(lock, now) ==
  [id \in DOMAIN lock |->
     IF InFlight(lock, id) /\ Age(lock, id, now) < PREVIEW_BUFFER_TTL
     THEN lock[id] ELSE None]

prune_stale(lock, now) ==
  [id \in DOMAIN lock |->
     IF InFlight(lock, id) /\ Age(lock, id, now) <= PREVIEW_BUFFER_TTL
     THEN lock[id] ELSE None]

\* A start that replaces whatever the id holds.
startOverwrites(lock, preview_id, width, height, expected_len, now) ==
  [lock |-> [prune_stale(lock, now) EXCEPT ![preview_id] =
               Some(PreviewBuffer(width, height, expected_len, <<>>, now))],
   result |-> "Ok"]

buffers_start(lock, preview_id, width, height, expected_len, now) ==
  LET kept == prune_stale(lock, now)
  IN IF InFlight(kept, preview_id)
     THEN [lock |-> kept, result |-> "AlreadyExists"]
     ELSE [lock |-> [kept EXCEPT ![preview_id] =
                       Some(PreviewBuffer(width, height, expected_len, <<>>, now))],
           result |-> "Ok"]

\* An append that checks the length the buffer already has.
appendLateCheck(lock, preview_id, chunk, now) ==
  IF ~InFlight(lock, preview_id)
  THEN [lock |-> lock, result |-> "NotFound"]
  ELSE LET buffer == Unwrap(lock[preview_id])
       IN IF Len(buffer.data) > buffer.expected_len
          THEN [lock |-> [lock EXCEPT ![preview_id] = None], result |-> "Overflow"]
          ELSE [lock |-> [lock EXCEPT ![preview_id] =
                            Some([buffer EXCEPT !.data = @ \o chunk,
                                                !.last_updated = now])],
                result |-> "Ok"]

\* An append that puts the chunk in front of the data.
appendPrepends(lock, preview_id, chunk, now) ==
  IF ~InFlight(lock, preview_id)
  THEN [lock |-> lock, result |-> "NotFound"]
  ELSE LET buffer == Unwrap(lock[preview_id])
       IN IF Len(buffer.data) + Len(chunk) > buffer.expected_len
          THEN [lock |-> [lock EXCEPT ![preview_id] = None], result |-> "Overflow"]
          ELSE [lock |-> [lock EXCEPT ![preview_id] =
                            Some([buffer EXCEPT !.data = chunk \o @,
                                                !.last_updated = now])],
                result |-> "Ok"]

\* An append that keeps the entry when the chunk does not fit.
appendKeepsOnOverflow(lock, preview_id, chunk, now) ==
  IF ~InFlight(lock, preview_id)
  THEN [lock |-> lock, result |-> "NotFound"]
  ELSE LET buffer == Unwrap(lock[preview_id])
       IN IF Len(buffer.data) + Len(chunk) > buffer.expected_len
          THEN [lock |-> lock, result |-> "Overflow"]
          ELSE [lock |-> [lock EXCEPT ![preview_id] =
                            Some([buffer EXCEPT !.data = @ \o chunk,
                                                !.last_updated = now])],
                result |-> "Ok"]

buffers_append(lock, preview_id, chunk, now) ==
  IF ~InFlight(lock, preview_id)
  THEN [lock |-> lock, result |-> "NotFound"]
  ELSE LET buffer == Unwrap(lock[preview_id])
       IN IF Len(buffer.data) + Len(chunk) > buffer.expected_len
          THEN [lock |-> [lock EXCEPT ![preview_id] = None], result |-> "Overflow"]
          ELSE [lock |-> [lock EXCEPT ![preview_id] =
                            Some([buffer EXCEPT !.data = @ \o chunk,
                                                !.last_updated = now])],
                result |-> "Ok"]

\* A finish that hands out a copy and leaves the entry in the store.
finishPeek(lock, preview_id) ==
  IF ~InFlight(lock, preview_id)
  THEN [lock |-> lock, result |-> "NotFound", buffer |-> None]
  ELSE [lock |-> lock, result |-> "Ok", buffer |-> lock[preview_id]]

buffers_finish(lock, preview_id) ==
  IF ~InFlight(lock, preview_id)
  THEN [lock |-> lock, result |-> "NotFound", buffer |-> None]
  ELSE [lock |-> [lock EXCEPT ![preview_id] = None], result |-> "Ok",
        buffer |-> lock[preview_id]]

buffers_discard(lock, preview_id) == [lock EXCEPT ![preview_id] = None]

\* Bytes of the upload the store holds for the id (none when not in flight).
Sent(lock, id) == IF InFlight(lock, id) THEN Len(Unwrap(lock[id]).data) ELSE 0
Pruned(lock, now) == {id \in DOMAIN lock : InFlight(lock, id) /\ ~InFlight(prune_stale(lock, now), id)}

\* E_preview_start: the dimensions are validated before the store is touched.
pixelsort_preview_start(preview_id, width, height) ==
  /\ LET expected_len == preview_expected_len(width, height)
     IN IF expected_len = None
        THEN /\ preview_ret' = PreviewRet("start", preview_id, "InvalidDims", None)
             /\ pruned' = {}
             /\ UNCHANGED <<buffers, chunk_log>>
        ELSE LET r == buffers_start(buffers, preview_id, width, height,
                                    Unwrap(expected_len), clock)
             IN /\ buffers' = r.lock
                /\ preview_ret' = PreviewRet("start", preview_id, r.result, None)
                /\ pruned' = Pruned(buffers, clock)
                /\ chunk_log' = IF r.result = "Ok"
                                THEN [chunk_log EXCEPT ![preview_id] = <<>>]
                                ELSE chunk_log
  /\ UNCHANGED <<clock, beside_previews>>

\* E_preview_append: an empty chunk returns before the store is consulted.
pixelsort_preview_append(preview_id, n) ==
  /\ LET chunk == Chunk(preview_id, Sent(buffers, preview_id), n)
     IN IF chunk = <<>>
        THEN /\ preview_ret' = PreviewRet("append", preview_id, "Ok", None)
             /\ UNCHANGED <<buffers, chunk_log>>
        ELSE LET r == buffers_append(buffers, preview_id, chunk, clock)
             IN /\ buffers' = r.lock
                /\ preview_ret' = PreviewRet("append", preview_id, r.result, None)
                /\ chunk_log' = IF r.result = "Ok"
                                THEN [chunk_log EXCEPT ![preview_id] = Append(@, n)]
                                ELSE chunk_log
  /\ pruned' = {}
  /\ UNCHANGED <<clock, beside_previews>>

\* E_preview_finish up to the render: the buffer is taken out of the store,
\* then its length is verified.
pixelsort_preview_finish(preview_id) ==
  /\ LET r == buffers_finish(buffers, preview_id)
     IN IF r.result # "Ok"
        THEN /\ preview_ret' = PreviewRet("finish", preview_id, r.result, None)
             /\ UNCHANGED buffers
        ELSE /\ buffers' = r.lock
             /\ preview_ret' = PreviewRet("finish", preview_id,
                  IF Len(Unwrap(r.buffer).data) # Unwrap(r.buffer).expected_len
                  THEN "SizeMismatch" ELSE "Ok",
                  r.buffer)
  /\ pruned' = {}
  /\ UNCHANGED <<clock, chunk_log, beside_previews>>

\* E_preview_discard.
pixelsort_preview_discard(preview_id) ==
  /\ buffers' = buffers_discard(buffers, preview_id)
  /\ preview_ret' = PreviewRet("discard", preview_id, "Ok", None)
  /\ pruned' = {}
  /\ UNCHANGED <<clock, chunk_log, beside_previews>>

\* Time passes between two RPCs.
Tick(d) ==
  /\ clock + d <= MaxPreviewTime
  /\ clock' = clock + d
  /\ UNCHANGED <<buffers, preview_ret, chunk_log, pruned, beside_previews>>

NextPreview ==
  \/ \E id \in PreviewIds, dim \in PreviewDims : pixelsort_preview_start(id, dim[1], dim[2])
  \/ \E id \in PreviewIds, n \in PreviewChunkLens : pixelsort_preview_append(id, n)
  \/ \E id \in PreviewIds : pixelsort_preview_finish(id)
  \/ \E id \in PreviewIds : pixelsort_preview_discard(id)
  \/ \E d \in TickSteps : Tick(d)

InitPreview ==
  /\ InitPreviews
  /\ InitCalls
  /\ dm = IdleDatamosh
  /\ registry = [id \in JobIds |-> 0]
  /\ flags = [f \in 1..MaxCalls |-> FALSE]
  /\ calls = 0
  /\ files = {InputPath}
  /\ cancel_ret = NoResult
  /\ job = [p \in AllProcs |-> IdleJob]
  /\ child = [p \in AllProcs |-> IdleChild]
  /\ tasks = [n \in 1..MaxCalls |-> IdleTasks]

SpecPreview == InitPreview /\ [][NextPreview]_vars

\* One upload of 2x2 pixels cut into at most MaxChunks chunks of any length.
DimsChunks == {<<2, 2>>}
ChunkLensChunks == 0..17
NextChunks ==
  \/ \E dim \in DimsChunks : pixelsort_preview_start(<<"p1">>, dim[1], dim[2])
  \/ \E n \in ChunkLensChunks :
       /\ Len(chunk_log[<<"p1">>]) < MaxChunks
       /\ pixelsort_preview_append(<<"p1">>, n)
  \/ pixelsort_preview_finish(<<"p1">>)

SpecChunks == InitPreview /\ [][NextChunks]_vars

\* ---------------------------------------------------------------- datamosh
\* Bytes of the units: a start code 00 00 01, the code byte, the payload.
VOP_CODE == 182
HeaderUnit == <<0, 0, 1, 176>>
IntraVop == <<0, 0, 1, VOP_CODE, 16>>
PredictedVop == <<0, 0, 1, VOP_CODE, 80>>
BareVop == <<0, 0, 1, VOP_CODE>>
UnitKinds == {HeaderUnit, IntraVop, PredictedVop, BareVop}

\* Scene windows; start and end are in half seconds.
SceneWindow(start, end) == [start |-> start, end |-> end]
TimeDen == 2
WindowLists ==
  { <<>>,
    <<SceneWindow(3, 5)>>,
    <<SceneWindow(0, 2), SceneWindow(1, 6)>>,
    <<SceneWindow(0, 1), SceneWindow(4, 6)>> }
FpsValues == {0, 2}
Intensities == {0, 30, 100}
\* Seeds, as the two 16-bit halves of their low 32 bits (the bits the rolls
\* depend on): 0 and 0x457D4AE5.
Seeds == {<<0, 0>>, <<17789, 19173>>}
ExtradataBytes == {<<>>, <<32, 7>>}

\* LcgRng::next_f64 on the low 32 bits of the state, which the bits 8..31
\* that make the value depend on; the state is <<high 16 bits, low 16 bits>>.
LCG_MUL_HI == 25
LCG_MUL_LO == 26125
LCG_ADD_HI == 15470
LCG_ADD_LO == 62303
ROLL_MAX == 16777215
lcg_next(state) ==
  LET low == state[2] * LCG_MUL_LO + LCG_ADD_LO
      high == state[1] * LCG_MUL_LO + state[2] * LCG_MUL_HI + LCG_ADD_HI + (low \div 65536)
  IN <<high % 65536, low % 65536>>
\* The numerator of the value: ((state >> 8) & 0xFFFFFF), out of 0xFFFFFF.
roll_of(state) == state[1] * 256 + (state[2] \div 256)
\* seed.max(1)
seed_max_1(seed) == IF seed = <<0, 0>> THEN <<0, 1>> ELSE seed

\* A clamp whose lower end is one percent.
dropProbabilityFloor(intensity) ==
  IF intensity < 1 THEN 1 ELSE IF intensity > 100 THEN 100 ELSE intensity

\* (intensity / 100).clamp(0, 1), in percent.
drop_probability(intensity) ==
  IF intensity < 0 THEN 0 ELSE IF intensity > 100 THEN 100 ELSE intensity
\* roll >= drop_probability
RollAtLeast(roll, percent) == roll * 100 >= percent * ROLL_MAX

\* fps.max(1.0)
SafeFps(fps) == IF fps > 1 THEN fps ELSE 1
\* Comparisons of time = vop_index / fps.max(1) with a window bound.
TimeAfter(vop_index, fps, bound) == vop_index * TimeDen > bound * SafeFps(fps)
TimeBefore(vop_index, fps, bound) == vop_index * TimeDen < bound * SafeFps(fps)

parse_vop_type(payload) == IF payload = <<>> THEN None ELSE Some(payload[1] \div 64)

ensure_start_code_prefix(bytes) ==
  IF Len(bytes) >= 4 /\ bytes[1] = 0 /\ bytes[2] = 0 /\ bytes[3] = 1
  THEN bytes ELSE <<0, 0, 1>> \o bytes

RECURSIVE AdvanceCursor(_, _, _, _)
AdvanceCursor(vop_index, fps, windows, index) ==
  IF index < Len(windows) /\ TimeAfter(vop_index, fps, windows[index + 1].end)
  THEN AdvanceCursor(vop_index, fps, windows, index + 1)
  ELSE index

\* A window scan that takes the window at the cursor without looking at its
\* start.
windowIndexNoStart(vop_index, fps, windows, cursor) ==
  IF windows = <<>>
  THEN [active |-> None, cursor |-> cursor]
  ELSE LET index == AdvanceCursor(vop_index, fps, windows,
                                  IF cursor < Len(windows) THEN cursor ELSE Len(windows))
       IN [active |-> IF index >= Len(windows) THEN None ELSE Some(index),
           cursor |-> index]

\* A cursor that also moves past a window whose end is the time asked for.
windowIndexPastEnd(vop_index, fps, windows, cursor) ==
  LET from == IF cursor < Len(windows) THEN cursor ELSE Len(windows)
      stops == {i \in from..(Len(windows) - 1) : TimeBefore(vop_index, fps, windows[i + 1].end)}
      index == IF stops = {} THEN Len(windows)
               ELSE CHOOSE i \in stops : \A other \in stops : i <= other
  IN [active |->
        IF index >= Len(windows) THEN None
        ELSE IF ~TimeBefore(vop_index, fps, windows[index + 1].start) THEN Some(index)
        ELSE None,
      cursor |-> IF windows = <<>> THEN cursor ELSE index]

\* window_index: indices are 0-based as in the code.
window_index(vop_index, fps, windows, cursor) ==
  IF windows = <<>>
  THEN [active |-> None, cursor |-> cursor]
  ELSE LET index == AdvanceCursor(vop_index, fps, windows,
                                  IF cursor < Len(windows) THEN cursor ELSE Len(windows))
       IN [active |->
             IF index >= Len(windows) THEN None
             ELSE IF /\ ~TimeBefore(vop_index, fps, windows[index + 1].start)
                     /\ ~TimeAfter(vop_index, fps, windows[index + 1].end)
                  THEN Some(index) ELSE None,
           cursor |-> index]

DatamoshInput(units, fps, windows, intensity, seed, extradata_bytes) ==
  [IdleDatamosh EXCEPT !.pc = "open", !.units = units, !.fps = fps,
                       !.windows = windows, !.intensity = intensity,
                       !.extradata_bytes = extradata_bytes,
                       !.rng = seed_max_1(seed),
                       !.window_drop_started = [i \in 1..Len(windows) |-> FALSE]]

UnitSeqs(max) == UNION {[1..n -> UnitKinds] : n \in 0..max}

\* Lines 232-259: the files are opened and the extradata prefix is written.
DatamoshOpen ==
  /\ dm.pc = "open"
  /\ dm' = [dm EXCEPT !.pc = "loop",
                      !.output = IF dm.extradata_bytes = <<>> THEN <<>>
                                 ELSE <<ensure_start_code_prefix(dm.extradata_bytes)>>]
  /\ UNCHANGED beside_datamosh

\* A loop body that rolls for every candidate, latched window or not.
DatamoshBodyNoLatch(d, unit, position) ==
  LET d1 == [d EXCEPT !.has_units = TRUE, !.pos = position]
      written == [d1 EXCEPT !.output = Append(@, unit), !.kept = Append(@, position)]
  IN IF Len(unit) < 4 THEN d1
     ELSE
     LET code == unit[4]
         is_vop == code = VOP_CODE
         payload == SubSeq(unit, 5, Len(unit))
         vop_type == IF is_vop THEN parse_vop_type(payload) ELSE None
         is_intra_vop == is_vop /\ vop_type = Some(0)
     IN IF ~is_vop
        THEN written
        ELSE IF is_intra_vop /\ ~d.has_reference_intra_vop
        THEN [written EXCEPT !.has_vop = TRUE, !.has_reference_intra_vop = TRUE,
                             !.vop_index = @ + 1]
        ELSE
        LET w == window_index(d.vop_index, d.fps, d.windows, d.window_cursor)
            in_window == w.active # None
            percent == drop_probability(d.intensity)
            may_drop == is_intra_vop /\ in_window /\ percent > 0
            window_idx == UnwrapOr(w.active, 0)
            latched == FALSE
            rolled == may_drop /\ ~latched
            rng == IF rolled THEN lcg_next(d.rng) ELSE d.rng
            should_drop ==
              may_drop /\ (latched \/ ~RollAtLeast(roll_of(rng), percent))
            base == IF should_drop THEN d1 ELSE written
        IN [base EXCEPT !.has_vop = TRUE,
                        !.window_cursor = w.cursor,
                        !.rng = rng,
                        !.draws = IF rolled THEN @ + 1 ELSE @,
                        !.window_drop_started =
                          IF rolled /\ should_drop
                          THEN [@ EXCEPT ![window_idx + 1] = TRUE] ELSE @,
                        !.vop_index = @ + 1]

\* The locals after the loop body has handled `unit`, the unit at `position`.
DatamoshBody(d, unit, position) ==
  LET d1 == [d EXCEPT !.has_units = TRUE, !.pos = position]
      written == [d1 EXCEPT !.output = Append(@, unit), !.kept = Append(@, position)]
  IN IF Len(unit) < 4 THEN d1
     ELSE
     LET code == unit[4]
         is_vop == code = VOP_CODE
         payload == SubSeq(unit, 5, Len(unit))
         vop_type == IF is_vop THEN parse_vop_type(payload) ELSE None
         is_intra_vop == is_vop /\ vop_type = Some(0)
     IN IF ~is_vop
        THEN written
        ELSE IF is_intra_vop /\ ~d.has_reference_intra_vop
        THEN [written EXCEPT !.has_vop = TRUE, !.has_reference_intra_vop = TRUE,
                             !.vop_index = @ + 1]
        ELSE
        LET w == window_index(d.vop_index, d.fps, d.windows, d.window_cursor)
            in_window == w.active # None
            percent == drop_probability(d.intensity)
            may_drop == is_intra_vop /\ in_window /\ percent > 0
            window_idx == UnwrapOr(w.active, 0)
            latched == may_drop /\ d.window_drop_started[window_idx + 1]
            rolled == may_drop /\ ~latched
            rng == IF rolled THEN lcg_next(d.rng) ELSE d.rng
            should_drop ==
              may_drop /\ (latched \/ ~RollAtLeast(roll_of(rng), percent))
            base == IF should_drop THEN d1 ELSE written
        IN [base EXCEPT !.has_vop = TRUE,
                        !.window_cursor = w.cursor,
                        !.rng = rng,
                        !.draws = IF rolled THEN @ + 1 ELSE @,
                        !.window_drop_started =
                          IF rolled /\ should_drop
                          THEN [@ EXCEPT ![window_idx + 1] = TRUE] ELSE @,
                        !.vop_index = @ + 1]

\* Lines 261-326: one pass of the loop, on the next unit of the reader.
DatamoshUnit ==
  /\ dm.pc = "loop"
  /\ dm.pos < Len(dm.units)
  /\ dm' = DatamoshBody(dm, dm.units[dm.pos + 1], dm.pos + 1)
  /\ UNCHANGED beside_datamosh

\* Lines 261-262, 328-335: the reader has no more units.
DatamoshEnd ==
  /\ dm.pc = "loop"
  /\ dm.pos = Len(dm.units)
  /\ dm' = [dm EXCEPT !.pc = "done",
                      !.result = IF dm.has_vop THEN "Ok"
                                 ELSE IF ~dm.has_units THEN "NoStartCodes" ELSE "NoVop"]
  /\ UNCHANGED beside_datamosh

\* ------------------------------------------------------- StartCodeReader
\* The three-byte start code begins at 0-based index idx of data.
StartCodeAt(data, idx) ==
  data[idx + 1] = 0 /\ data[idx + 2] = 0 /\ data[idx + 3] = 1

\* A scan that begins right after the start code of the unit, at index 3.
findStartCodeFromCode(data, from) ==
  LET hits == {idx \in 3..(Len(data) - 3) : StartCodeAt(data, idx)}
  IN IF Len(data) < 3 \/ hits = {} THEN None
     ELSE Some(CHOOSE idx \in hits : \A other \in hits : idx <= other)

\* find_start_code: the first index >= from at which a start code begins.
find_start_code(data, from) ==
  LET limit == IF Len(data) >= 2 THEN Len(data) - 2 ELSE 0
      hits == {idx \in from..(Len(data) - 3) : StartCodeAt(data, idx)}
  IN IF Len(data) < 3 \/ from >= limit \/ hits = {} THEN None
     ELSE Some(CHOOSE idx \in hits : \A other \in hits : idx <= other)

\* A tail that is one byte shorter than asked for.
keepTailShort(buffer, count) ==
  IF Len(buffer) <= count - 1 THEN buffer
  ELSE SubSeq(buffer, Len(buffer) - count + 2, Len(buffer))

keep_tail_bytes(buffer, count) ==
  IF Len(buffer) <= count THEN buffer
  ELSE SubSeq(buffer, Len(buffer) - count + 1, Len(buffer))

\* try_split_unit: the buffer it leaves, whether the reader is aligned, and
\* what it returns ("None", "Unit" with the unit, or "Err").
SplitResult(buffer, aligned, kind, unit) ==
  [buffer |-> buffer, aligned |-> aligned, kind |-> kind, unit |-> unit]
try_split_unit(buffer, eof, aligned) ==
  LET start == IF aligned THEN Some(0) ELSE find_start_code(buffer, 0)
  IN IF start = None
     THEN SplitResult(keep_tail_bytes(buffer, 2), FALSE, "None", <<>>)
     ELSE
     LET buf == SubSeq(buffer, Unwrap(start) + 1, Len(buffer))
         next_start == find_start_code(buf, 4)
     IN IF Len(buf) < 4
        THEN SplitResult(buf, TRUE, IF eof /\ buf # <<>> THEN "Err" ELSE "None", <<>>)
        ELSE IF next_start # None
        THEN SplitResult(SubSeq(buf, Unwrap(next_start) + 1, Len(buf)), TRUE, "Unit",
                         SubSeq(buf, 1, Unwrap(next_start)))
        ELSE IF eof
        THEN SplitResult(<<>>, TRUE, "Unit", buf)
        ELSE SplitResult(buf, TRUE, "None", <<>>)

\* What try_split_unit does on the reader of the call.
Split == try_split_unit(dm.buffer, dm.eof, dm.aligned)
ReadSizes == {1, 2, 3, 65536}

\* next_unit, lines 102-122: nothing to split off and not at end of file, so
\* one read is made; it returns `size` bytes at most, and 0 at end of file.
ReaderRead(size) ==
  /\ dm.pc = "loop"
  /\ Split.kind = "None"
  /\ ~dm.eof
  /\ LET read == Min(size, Len(dm.input))
     IN dm' = [dm EXCEPT
          !.aligned = Split.aligned,
          !.eof = (read = 0),
          !.buffer = Split.buffer \o SubSeq(dm.input, 1, read),
          !.input = SubSeq(dm.input, read + 1, Len(dm.input))]
  /\ UNCHANGED beside_datamosh

\* next_unit returns a unit and the loop body of process_datamosh handles it.
ReaderUnit ==
  /\ dm.pc = "loop"
  /\ Split.kind = "Unit"
  /\ dm' = DatamoshBody(
             [dm EXCEPT !.aligned = Split.aligned, !.buffer = Split.buffer,
                        !.units = Append(@, Split.unit)],
             Split.unit, dm.pos + 1)
  /\ UNCHANGED beside_datamosh

\* next_unit returns the truncation error, which `?` at line 262 passes on.
ReaderTruncated ==
  /\ dm.pc = "loop"
  /\ Split.kind = "Err"
  /\ dm' = [dm EXCEPT !.aligned = Split.aligned, !.buffer = Split.buffer,
                      !.pc = "done", !.result = "Truncated"]
  /\ UNCHANGED beside_datamosh

\* next_unit returns None at end of file; lines 328-335 decide the result.
ReaderEnd ==
  /\ dm.pc = "loop"
  /\ Split.kind = "None"
  /\ dm.eof
  /\ dm' = [dm EXCEPT !.aligned = Split.aligned, !.buffer = Split.buffer,
                      !.pc = "done",
                      !.result = IF dm.has_vop THEN "Ok"
                                 ELSE IF ~dm.has_units THEN "NoStartCodes" ELSE "NoVop"]
  /\ UNCHANGED beside_datamosh

\* Input files: pieces put one after the other.
Pieces == {IntraVop, <<0, 0, 1>>, <<VOP_CODE>>, <<0>>, <<1>>}
RECURSIVE Flatten(_)
Flatten(seqs) == IF seqs = <<>> THEN <<>> ELSE Head(seqs) \o Flatten(Tail(seqs))
Sources(max) == {Flatten(pieces) : pieces \in UNION {[1..n -> Pieces] : n \in 0..max}}
WindowsBitstream == {<<SceneWindow(0, 6)>>}
IntensitiesBitstream == {0 - 50, 0, 100}

BitstreamInput(source, fps, windows, intensity, seed, extradata_bytes) ==
  [DatamoshInput(<<>>, fps, windows, intensity, seed, extradata_bytes)
     EXCEPT !.source = source, !.input = source]

NextBitstream ==
  \/ DatamoshOpen
  \/ \E size \in ReadSizes : ReaderRead(size)
  \/ ReaderUnit
  \/ ReaderTruncated
  \/ ReaderEnd

InitBitstream ==
  /\ InitPreviews
  /\ InitCalls
  /\ InitPipeline
  /\ \E source \in Sources(MaxPieces), windows \in WindowsBitstream,
        intensity \in IntensitiesBitstream, extradata_bytes \in ExtradataBytes :
       dm = BitstreamInput(source, 0, windows, intensity, <<0, 0>>, extradata_bytes)

SpecBitstream == InitBitstream /\ [][NextBitstream]_vars

NextDatamosh ==
  \/ DatamoshOpen
  \/ DatamoshUnit
  \/ DatamoshEnd

InitDatamosh ==
  /\ InitPreviews
  /\ InitCalls
  /\ registry = [id \in JobIds |-> 0]
  /\ flags = [f \in 1..MaxCalls |-> FALSE]
  /\ calls = 0
  /\ files = {InputPath}
  /\ cancel_ret = NoResult
  /\ job = [p \in AllProcs |-> IdleJob]
  /\ child = [p \in AllProcs |-> IdleChild]
  /\ tasks = [n \in 1..MaxCalls |-> IdleTasks]
  /\ \E units \in UnitSeqs(MaxUnits), fps \in FpsValues, windows \in WindowLists,
        intensity \in Intensities, seed \in Seeds, extradata_bytes \in ExtradataBytes :
       dm = DatamoshInput(units, fps, windows, intensity, seed, extradata_bytes)

SpecDatamosh == InitDatamosh /\ [][NextDatamosh]_vars

\* ------------------------------------------------------------------ claims
Done(p) == job[p].pc = "done"
Unread(p) == Len(job[p].buffer) - job[p].read_offset
\* The decoder event last taken has been handled completely.
EventHandled(p) == job[p].pc \in {"recv", "drain"}

\* C1: whatever the chunks are, the k-th write to the encoder is the transform,
\* under frame index k, of bytes [k*frame_size, (k+1)*frame_size) of the
\* decoder's stream, and once an event has been handled every whole frame
\* delivered so far has been written exactly once.
C1_FramesInStreamOrder ==
  \A p \in AllProcs :
    LET w == child[p].writes
        fs == job[p].frame_size
    IN /\ \A k \in 1..Len(w) : w[k] = Processed(StreamBytes((k - 1) * fs, fs), k - 1)
       /\ EventHandled(p) => Len(w) = child[p].delivered \div fs

\* Six frames written, the buffer compacted on the way, a partial frame unread.
C1_Witness ==
  \E p \in AllProcs :
    /\ job[p].pc = "recv"
    /\ Len(child[p].writes) >= 6
    /\ Unread(p) > 0
    /\ job[p].read_offset = job[p].frame_size

\* C10: between decoder events read_offset <= buffer length, read_offset <
\* 4*frame_size, fewer than frame_size bytes are unread, and the buffer holds
\* fewer than 5*frame_size bytes.
C10_BufferBounded ==
  \A p \in AllProcs :
    EventHandled(p) =>
      /\ job[p].read_offset <= Len(job[p].buffer)
      /\ job[p].read_offset < 4 * job[p].frame_size
      /\ Unread(p) < job[p].frame_size
      /\ Len(job[p].buffer) < 5 * job[p].frame_size

\* The fullest the buffer gets between events: three consumed frames kept and
\* all but one byte of a fourth unread.
C10_Witness ==
  \E p \in AllProcs :
    /\ job[p].pc = "recv"
    /\ job[p].read_offset = 3 * job[p].frame_size
    /\ Unread(p) = job[p].frame_size - 1

InDecodeLoop(p) == job[p].pc \in {"validate", "spawn_decoder", "spawn_encoder", "recv", "frames", "write"}
Running(p) == job[p].pc \notin {"idle", "done"}
Deleted(p, paths) == paths \subseteq child[p].cleaned /\ paths \cap files = {}
PreviewPaths(p) == IF job[p].preview_path # None THEN {Unwrap(job[p].preview_path)} ELSE {}

\* C2 (as stated): a call whose cancel flag was set while it was running, in
\* whatever stage, never returns success.
C2_CanceledNeverSucceeds ==
  [][\A p \in AllProcs :
       (Running(p) /\ CancelFlag(p) /\ Done(p)') => job'[p].result # "Ok"]_vars

\* C2 (amended): a call whose cancel flag is set while it is in its decode
\* loop never reaches the encoder drain, and the next decoder event it takes
\* makes it return "Canceled".
C2_CancelInDecodeLoop ==
  [][\A p \in AllProcs :
       (InDecodeLoop(p) /\ CancelFlag(p)) =>
         /\ job'[p].pc # "drain"
         /\ (job[p].pc = "recv" /\ job'[p] # job[p]) =>
              (Done(p)' /\ job'[p].result = "Canceled")]_vars

\* A call canceled after it had written a frame.
C2_Witness ==
  \E p \in AllProcs :
    Done(p) /\ job[p].result = "Canceled" /\ CancelFlag(p) /\ Len(child[p].writes) >= 1

\* C3: a call that returned "Canceled" has issued kill to both children and
\* the deletion of the temp video, the output and its preview file, and its
\* job id is no longer in the registry.
C3_CanceledCleansUp ==
  \A p \in AllProcs :
    (Done(p) /\ job[p].result = "Canceled") =>
      /\ {"decoder", "encoder"} \subseteq child[p].kills
      /\ child[p].decoder # "running" /\ child[p].encoder # "running"
      /\ Deleted(p, {job[p].temp_video, job[p].output_path} \cup PreviewPaths(p))
      /\ registry[job[p].job_id] = 0

\* A canceled call that had a preview path and whose encoder had opened the
\* temp video.
C3_Witness ==
  \E p \in AllProcs :
    /\ Done(p) /\ job[p].result = "Canceled"
    /\ job[p].preview_path # None
    /\ job[p].temp_video \in child[p].cleaned
    /\ job[p].pre_files # files

\* C4 (as stated): once the cancel flag is set no further frame is sliced; only
\* a frame already being transformed is still written.
C4_NoFrameSlicedAfterCancel ==
  [][\A p \in AllProcs :
       (CancelFlag(p) /\ job[p].pc = "frames") => job'[p].pc # "write"]_vars

\* C4 (amended): the flag is polled between decoder events: once it is set and
\* the event being handled is finished, no further event is handled and no
\* further frame is sliced or written.
C4_NoEventAfterCancel ==
  [][\A p \in AllProcs :
       (CancelFlag(p) /\ job[p].pc = "recv") =>
         /\ child'[p].writes = child[p].writes
         /\ child'[p].delivered = child[p].delivered
         /\ job'[p].pc \in {"recv", "done"}]_vars

\* A canceled call that wrote both frames of a two-frame chunk.
C4_Witness ==
  \E p \in AllProcs :
    /\ Done(p) /\ job[p].result = "Canceled"
    /\ Len(child[p].writes) = 2

\* C5: after a non-zero or missing exit code of the decoder or the encoder the
\* call returns a failure, the mux is never started, the temp video and the
\* output are deleted and the job is off the registry; the mux is started only
\* after the decoder exited with 0, the encoder's stdin was closed and the
\* encoder exited with 0.
ChildFailed(p) ==
  \/ child[p].decoder = "exited" /\ job[p].decode_exit_code # Some(0)
  \/ child[p].encoder = "exited" /\ child[p].encode_code # Some(0)

C5_ChildFailureCleansUp ==
  \A p \in AllProcs :
    /\ (Done(p) /\ ChildFailed(p)) =>
         /\ job[p].result # "Ok"
         /\ child[p].mux = "none"
         /\ Deleted(p, {job[p].temp_video, job[p].output_path})
         /\ registry[job[p].job_id] = 0
    /\ child[p].mux # "none" =>
         /\ child[p].decoder = "exited" /\ job[p].decode_exit_code = Some(0)
         /\ child[p].stdin_closed
         /\ child[p].encoder = "exited" /\ child[p].encode_code = Some(0)

\* C6: a call that failed to spawn the decoder, the encoder or the mux has
\* deleted the temp video and the partial output, is off the registry and
\* leaves no child running.
C6_SpawnFailureCleansUp ==
  \A p \in AllProcs :
    (Done(p) /\ job[p].result \in {"SpawnDecoder", "SpawnEncoder", "MuxSpawn"}) =>
      /\ job[p].temp_video \notin files
      /\ registry[job[p].job_id] = 0
      /\ child[p].decoder # "running" /\ child[p].encoder # "running"

\* C7: a call that failed to write a frame has killed both children, cleaned
\* up the temp video, the output and the preview, and is off the registry.
C7_WriteFailureCleansUp ==
  \A p \in AllProcs :
    (Done(p) /\ job[p].result = "WriteFailed") =>
      /\ {"decoder", "encoder"} \subseteq child[p].kills
      /\ Deleted(p, {job[p].temp_video, job[p].output_path} \cup PreviewPaths(p))
      /\ registry[job[p].job_id] = 0

\* C8: a call rejected by the pre-flight checks leaves the registry and the
\* files as they were when it was made and spawns nothing.
C8_RejectionChangesNothing ==
  \A p \in AllProcs :
    (Done(p) /\ job[p].result \in {"SamePath", "InvalidDims"}) =>
      /\ registry = job[p].pre_registry
      /\ files = job[p].pre_files
      /\ child[p].cleaned = {}
      /\ child[p].decoder = "none" /\ child[p].encoder = "none" /\ child[p].mux = "none"

\* C9: cancel of an id without a registry entry fails and changes neither a
\* flag nor the registry; cancel of a registered id succeeds, sets that entry's
\* flag and leaves every other flag and the registry as they were.
C9_CancelTouchesOnlyItsJob ==
  [][\A id \in JobIds :
       pixelsort_cancel(id) =>
         /\ registry' = registry
         /\ IF registry[id] = 0
            THEN cancel_ret' # "Ok" /\ flags' = flags
            ELSE /\ cancel_ret' = "Ok"
                 /\ flags'[registry[id]]
                 /\ \A f \in DOMAIN flags : f # registry[id] => flags'[f] = flags[f]]_vars

\* Two registered jobs, one canceled and one not, the last cancel successful.
C9_Witness ==
  \E a, b \in JobIds :
    /\ registry[a] # 0 /\ registry[b] # 0
    /\ flags[registry[a]] /\ ~flags[registry[b]]
    /\ cancel_ret = "Ok"

\* ---------------------------------------------------------------- progress
\* The decoder of the call has ended with exit code 0.
DecodedOk(p) == job[p].decode_exit_code = Some(0)

\* C11: within one job the frame counts of successive progress events never
\* decrease; once the decoder has ended successfully the last progress event
\* carries the number of frames written to the encoder, and no further
\* progress event follows it.
C11_ProgressMonotone ==
  [][\A p \in AllProcs :
       LET log == child'[p].progress
       IN /\ \A i \in 1..(Len(log) - 1) : log[i] <= log[i + 1]
          /\ DecodedOk(p)' =>
                /\ log # <<>>
                /\ log[Len(log)] = Len(child'[p].writes)
          /\ (DecodedOk(p) /\ DecodedOk(p)') => log = child[p].progress]_vars
C11_Witness ==
  \E p \in AllProcs :
    /\ DecodedOk(p)
    /\ Len(child[p].writes) >= 3
    /\ Len(child[p].progress) >= 3
    /\ child[p].progress[1] < child[p].progress[2]
    /\ child[p].progress[2] < Len(child[p].writes)

\* ---------------------------------------------------------- preview buffers
Buffer(id) == Unwrap(buffers[id])
Complete(id) == InFlight(buffers, id) /\ Len(Buffer(id).data) = Buffer(id).expected_len
ValidDims(dim) == preview_expected_len(dim[1], dim[2]) # None
\* The step is the RPC named, on the id named: every RPC records itself in
\* preview_ret and leaves the clock alone, a tick does the opposite.
RpcStep(op, id) ==
  clock' = clock /\ preview_ret'.op = op /\ preview_ret'.preview_id = id
StartStep(id) == RpcStep("start", id)
\* A start that got past preview_expected_len and called PreviewBuffers::start.
StoreStartStep(id) == StartStep(id) /\ preview_ret'.result # "InvalidDims"
AppendStep(id) == RpcStep("append", id)
FinishStep(id) == RpcStep("finish", id)
DiscardStep(id) == RpcStep("discard", id)
\* On this store the id is unknown to PreviewBuffers::append and ::finish.
Unknown(lock, id, now) ==
  /\ \A n \in PreviewChunkLens :
       buffers_append(lock, id, Chunk(id, 0, n), now) = [lock |-> lock, result |-> "NotFound"]
  /\ buffers_finish(lock, id) = [lock |-> lock, result |-> "NotFound", buffer |-> None]
\* An entry comes into the store only through a start on its id.
OnlyStartInserts(id) == (~InFlight(buffers, id) /\ InFlight(buffers', id)) => StartStep(id)

\* C12: every stored buffer holds at most expected_len bytes, and as long as a
\* buffer stays in the store (no successful start puts a new one in its place)
\* its width, height and expected_len stay what start made them.
C12_DataWithinExpected ==
  [][\A id \in PreviewIds :
       /\ InFlight(buffers', id) =>
            Len(Unwrap(buffers'[id]).data) <= Unwrap(buffers'[id]).expected_len
       /\ ( /\ InFlight(buffers, id) /\ InFlight(buffers', id)
            /\ ~(StartStep(id) /\ preview_ret'.result = "Ok") ) =>
            /\ Unwrap(buffers'[id]).expected_len = Buffer(id).expected_len
            /\ Unwrap(buffers'[id]).width = Buffer(id).width
            /\ Unwrap(buffers'[id]).height = Buffer(id).height]_vars
C12_Witness ==
  \E a, b \in PreviewIds :
    /\ Complete(a) /\ InFlight(buffers, b)
    /\ Buffer(b).expected_len # Buffer(a).expected_len
    /\ Len(Buffer(b).data) \in 1..(Buffer(b).expected_len - 1)
    /\ preview_ret.op = "append"

\* C13: a finish on a buffer that holds exactly expected_len bytes returns that
\* buffer and takes it out of the store; from then on PreviewBuffers::append
\* and ::finish on the id fail with not-found, an entry for the id can only
\* come back through a start, and the buffer returned is the one the store
\* held.
C13_SingleUse ==
  [][\A id \in PreviewIds :
       /\ (FinishStep(id) /\ Complete(id)) =>
            /\ preview_ret'.result = "Ok"
            /\ preview_ret'.buffer = buffers[id]
            /\ Len(Unwrap(preview_ret'.buffer).data) = Buffer(id).expected_len
            /\ ~InFlight(buffers', id)
       /\ ~InFlight(buffers', id) => Unknown(buffers', id, clock')
       /\ OnlyStartInserts(id)]_vars
C13_Witness ==
  /\ preview_ret.op = "finish" /\ preview_ret.result = "Ok"
  /\ Len(Unwrap(preview_ret.buffer).data) = 24
  /\ ~InFlight(buffers, preview_ret.preview_id)

\* The bytes finish returns after start and one append of the whole payload.
OneShot(id, dim) ==
  LET expected_len == Unwrap(preview_expected_len(dim[1], dim[2]))
      empty == [i \in PreviewIds |-> None]
      started == buffers_start(empty, id, dim[1], dim[2], expected_len, 0).lock
      filled == buffers_append(started, id, Payload(id, expected_len), 0).lock
  IN Unwrap(buffers_finish(filled, id).buffer).data

\* C14: however the payload was cut into chunks, a finish that finds the
\* expected number of bytes returns the bytes that start, one append of the
\* whole payload and finish return: the chunks concatenated in call order.
C14_ChunkingTransparent ==
  [][\A id \in PreviewIds :
       (FinishStep(id) /\ Complete(id)) =>
          /\ Unwrap(preview_ret'.buffer).data =
               OneShot(id, <<Buffer(id).width, Buffer(id).height>>)
          /\ Unwrap(preview_ret'.buffer).data = Payload(id, Buffer(id).expected_len)]_vars
C14_Witness ==
  /\ preview_ret.op = "finish" /\ preview_ret.result = "Ok"
  /\ chunk_log[preview_ret.preview_id] = <<5, 11>>

\* C15: a start on an id whose buffer is in flight and not stale fails (with
\* already-exists when the dimensions are valid) and leaves that buffer as it
\* was.
C15_StartKeepsInFlight ==
  [][\A id \in PreviewIds, dim \in PreviewDims :
       ( /\ pixelsort_preview_start(id, dim[1], dim[2])
         /\ InFlight(buffers, id) /\ ~Stale(buffers, id, clock) ) =>
          /\ preview_ret'.result # "Ok"
          /\ ValidDims(dim) => preview_ret'.result = "AlreadyExists"
          /\ buffers'[id] = buffers[id]]_vars
C15_Witness ==
  /\ preview_ret.op = "start" /\ preview_ret.result = "AlreadyExists"
  /\ InFlight(buffers, preview_ret.preview_id)
  /\ Len(Buffer(preview_ret.preview_id).data) > 0
  /\ Age(buffers, preview_ret.preview_id, clock) = PREVIEW_BUFFER_TTL

\* C16: an append whose chunk does not fit fails with overflow and removes the
\* entry of its id (and nothing else); PreviewBuffers::append and ::finish then
\* fail with not-found on that id until a start puts a new entry in.
C16_OverflowRemoves ==
  [][\A id \in PreviewIds :
       /\ \A n \in PreviewChunkLens :
            ( /\ pixelsort_preview_append(id, n)
              /\ InFlight(buffers, id)
              /\ Len(Buffer(id).data) + n > Buffer(id).expected_len ) =>
               /\ preview_ret'.result = "Overflow"
               /\ ~InFlight(buffers', id)
               /\ Unknown(buffers', id, clock')
               /\ \A other \in PreviewIds \ {id} : buffers'[other] = buffers[other]
       /\ OnlyStartInserts(id)]_vars
C16_Witness ==
  /\ preview_ret.op = "append" /\ preview_ret.result = "Overflow"
  /\ ~InFlight(buffers, preview_ret.preview_id)
  /\ \E other \in PreviewIds : InFlight(buffers, other) /\ Len(Buffer(other).data) > 0

\* C17: PreviewBuffers::start, whether it succeeds or fails, removes exactly
\* the entries last updated more than 30 s ago; append, finish and discard
\* leave every other entry alone however old it is, treat an old entry of
\* their own id like any other, and a successful append sets last_updated to
\* now.
C17_PruneOnStartOnly ==
  [][\A id \in PreviewIds :
       /\ StoreStartStep(id) =>
            /\ \A other \in PreviewIds \ {id} :
                 buffers'[other] = IF Stale(buffers, other, clock) THEN None ELSE buffers[other]
            /\ Stale(buffers, id, clock) => preview_ret'.result = "Ok"
            /\ (InFlight(buffers, id) /\ ~Stale(buffers, id, clock)) =>
                 buffers'[id] = buffers[id]
       /\ (AppendStep(id) \/ FinishStep(id) \/ DiscardStep(id)) =>
            \A other \in PreviewIds \ {id} : buffers'[other] = buffers[other]
       /\ (AppendStep(id) /\ Stale(buffers, id, clock)) =>
            preview_ret'.result \in {"Ok", "Overflow"}
       /\ (FinishStep(id) /\ Stale(buffers, id, clock)) =>
            preview_ret'.buffer = buffers[id]
       /\ \A n \in PreviewChunkLens :
            LET r == buffers_append(buffers', id, Chunk(id, Sent(buffers', id), n), clock')
            IN r.result = "Ok" => Age(r.lock, id, clock') = 0
       /\ (AppendStep(id) /\ InFlight(buffers', id) /\ buffers'[id] # buffers[id]) =>
            Age(buffers', id, clock') = 0]_vars
C17_Witness ==
  /\ preview_ret.op = "start" /\ preview_ret.result = "AlreadyExists"
  /\ pruned # {}
  /\ Age(buffers, preview_ret.preview_id, clock) \in 1..PREVIEW_BUFFER_TTL

\* C18: every append RPC (whatever the chunk, the empty one included) and
\* every finish RPC on an id that has no upload in flight fails with not-found
\* and leaves the store unchanged.
C18_UnknownIdNotFound ==
  [][\A id \in PreviewIds :
       ( /\ ~InFlight(buffers, id)
         /\ AppendStep(id) \/ FinishStep(id) ) =>
          /\ preview_ret'.result = "NotFound"
          /\ buffers' = buffers]_vars

\* ---------------------------------------------------------------- datamosh
IsVop(unit) == Len(unit) >= 4 /\ unit[4] = VOP_CODE
IsIntraVop(unit) == IsVop(unit) /\ parse_vop_type(SubSeq(unit, 5, Len(unit))) = Some(0)
\* The unit at position i is the first intra VOP of the input.
ReferenceIntra(i) ==
  IsIntraVop(dm.units[i]) /\ \A j \in 1..(i - 1) : ~IsIntraVop(dm.units[j])
\* vop_index when the unit at position i is handled: the VOPs before it.
VopIndexAt(i) == Cardinality({j \in 1..(i - 1) : IsVop(dm.units[j])})
\* The time of the unit at position i lies inside some scene window.
InSomeWindow(i) ==
  \E k \in 1..Len(dm.windows) :
    /\ ~TimeBefore(VopIndexAt(i), dm.fps, dm.windows[k].start)
    /\ ~TimeAfter(VopIndexAt(i), dm.fps, dm.windows[k].end)
Kept(i) == \E j \in 1..Len(dm.kept) : dm.kept[j] = i
\* The writes after the extradata prefix.
OutputUnits ==
  IF dm.pc \in {"idle", "open"} \/ dm.extradata_bytes = <<>>
  THEN dm.output ELSE Tail(dm.output)

\* C19: after the extradata prefix the output is the input units handled so
\* far, in input order, less some units; a unit is left out only if it is an
\* intra VOP, not the first intra VOP of the stream, and its time
\* vop_index / max(fps, 1) lies inside some scene window.
C19_OnlyWindowedIntraDropped ==
  /\ Len(OutputUnits) = Len(dm.kept)
  /\ \A j \in 1..Len(dm.kept) :
       /\ dm.kept[j] \in 1..dm.pos
       /\ OutputUnits[j] = dm.units[dm.kept[j]]
       /\ j > 1 => dm.kept[j - 1] < dm.kept[j]
  /\ \A i \in 1..dm.pos :
       ~Kept(i) =>
         /\ IsIntraVop(dm.units[i])
         /\ ~ReferenceIntra(i)
         /\ InSomeWindow(i)
  /\ (dm.pc \in {"loop", "done"} /\ dm.extradata_bytes # <<>>) =>
       dm.output[1] = ensure_start_code_prefix(dm.extradata_bytes)
C19_Witness ==
  /\ dm.pc = "done" /\ dm.result = "Ok"
  /\ dm.extradata_bytes # <<>>
  /\ \E i, j, k \in 1..dm.pos :
       /\ ~Kept(i)
       /\ Kept(j) /\ IsIntraVop(dm.units[j]) /\ ~ReferenceIntra(j) /\ ~InSomeWindow(j)
       /\ Kept(k) /\ ~IsVop(dm.units[k]) /\ VopIndexAt(k) > 0

\* C20: with drop probability 1 (intensity 100), whatever the seed, the fps
\* and the windows (sorted by start), once the call has ended no intra VOP
\* other than the reference intra whose time lies inside a window is in the
\* output.
C20_FullIntensityDropsAll ==
  (dm.pc = "done" /\ drop_probability(dm.intensity) = 100) =>
    \A i \in 1..dm.pos :
      (IsIntraVop(dm.units[i]) /\ ~ReferenceIntra(i) /\ InSomeWindow(i)) => ~Kept(i)

\* The input file from its first start code on (nothing when it has none).
FromFirstStartCode(source) ==
  LET hits == {idx \in 0..(Len(source) - 3) : StartCodeAt(source, idx)}
  IN IF hits = {} THEN <<>>
     ELSE SubSeq(source, 1 + (CHOOSE idx \in hits : \A other \in hits : idx <= other),
                 Len(source))

\* C21: with an intensity of 0 or less no unit is left out and no PRNG value
\* is drawn, and when the call succeeds the output is the extradata prefix (if
\* one was supplied) followed by the input file from its first start code to
\* its end.
C21_ZeroIntensityCopies ==
  (dm.pc \in {"loop", "done"} /\ dm.intensity <= 0) =>
    /\ dm.draws = 0
    /\ dm.kept = [i \in 1..dm.pos |-> i]
    /\ dm.window_drop_started = [k \in 1..Len(dm.windows) |-> FALSE]
    /\ dm.result = "Ok" =>
         /\ Flatten(OutputUnits) = FromFirstStartCode(dm.source)
         /\ Len(dm.output) = Len(dm.kept) + (IF dm.extradata_bytes = <<>> THEN 0 ELSE 1)
C21_Witness ==
  /\ dm.pc = "done" /\ dm.result = "Ok" /\ dm.intensity < 0
  /\ dm.extradata_bytes # <<>>
  /\ dm.source[1] # 0
  /\ \E i \in 1..dm.pos :
       IsIntraVop(dm.units[i]) /\ ~ReferenceIntra(i) /\ InSomeWindow(i)

\* The time of the unit at position i lies inside window k (1-based).
InWindow(i, k) ==
  /\ ~TimeBefore(VopIndexAt(i), dm.fps, dm.windows[k].start)
  /\ ~TimeAfter(VopIndexAt(i), dm.fps, dm.windows[k].end)
\* The window the cursor scan selects for the unit handled by this step.
Selected == window_index(dm.vop_index, dm.fps, dm.windows, dm.window_cursor).active
\* The step handles the unit at position dm.pos + 1.
UnitStep == dm.pc = "loop" /\ dm'.pc = "loop" /\ dm'.pos = dm.pos + 1
CandidateStep ==
  /\ UnitStep
  /\ IsIntraVop(dm'.units[dm'.pos])
  /\ dm.has_reference_intra_vop
  /\ drop_probability(dm.intensity) > 0

\* C22 as stated: once an intra VOP whose time lies in window w has been left
\* out, every later intra VOP whose time lies in w is left out too.
C22_DroppedInWindowStaysDropped ==
  \A k \in 1..Len(dm.windows) : \A i, j \in 1..dm.pos :
    ( /\ i < j
      /\ ~Kept(i) /\ InWindow(i, k)
      /\ IsIntraVop(dm.units[j]) /\ InWindow(j, k) ) => ~Kept(j)

\* C22, amended: the latch belongs to the window the cursor scan selects.
\* Once the latch of a window is set it stays set; an intra VOP after the
\* reference for which the scan selects a latched window is left out without
\* a PRNG draw; the PRNG is advanced exactly once for each such VOP whose
\* selected window is not latched (intensity > 0), and never otherwise.
C22_LatchPerSelectedWindow ==
  [][UnitStep =>
       /\ \A k \in 1..Len(dm.windows) :
            dm.window_drop_started[k] => dm'.window_drop_started[k]
       /\ IF CandidateStep /\ Selected # None
          THEN IF dm.window_drop_started[Unwrap(Selected) + 1]
               THEN /\ dm'.draws = dm.draws /\ dm'.rng = dm.rng
                    /\ dm'.kept = dm.kept
               ELSE /\ dm'.draws = dm.draws + 1 /\ dm'.rng = lcg_next(dm.rng)
                    /\ dm'.window_drop_started[Unwrap(Selected) + 1] = (dm'.kept = dm.kept)
          ELSE /\ dm'.draws = dm.draws /\ dm'.rng = dm.rng
               /\ dm'.window_drop_started = dm.window_drop_started
               /\ dm'.kept = Append(dm.kept, dm'.pos)]_vars
C22_Witness ==
  /\ dm.pc = "done" /\ dm.draws = 1
  /\ \E i, j \in 1..dm.pos : i < j /\ ~Kept(i) /\ ~Kept(j)
  /\ \E k \in 1..Len(dm.windows) : dm.window_drop_started[k]

\* The input file read as a whole: from a start code, a unit runs up to the
\* next start code that begins after the unit's own four bytes.
RECURSIVE Segments(_)
Segments(body) ==
  LET hits == {idx \in 4..(Len(body) - 3) : StartCodeAt(body, idx)}
      next == CHOOSE idx \in hits : \A other \in hits : idx <= other
  IN IF hits = {} THEN <<body>>
     ELSE <<SubSeq(body, 1, next)>> \o Segments(SubSeq(body, next + 1, Len(body)))
HasStartCode(source) == FromFirstStartCode(source) # <<>>
HasVopSegment(source) ==
  LET segs == Segments(FromFirstStartCode(source))
  IN \E n \in 1..Len(segs) : Len(segs[n]) >= 4 /\ segs[n][4] = VOP_CODE
EndsWithPrefix(source) ==
  Len(source) >= 3 /\ StartCodeAt(source, Len(source) - 3)
LastSegmentShort(source) ==
  LET segs == Segments(FromFirstStartCode(source))
  IN Len(segs[Len(segs)]) < 4

\* C23 as stated: no start code gives "No MPEG-4 start codes found"; start
\* codes but no unit with code 0xB6 give "No VOP frames found"; an input whose
\* last three bytes are 00 00 01 fails; every other input succeeds.
C23_ErrorsAsStated ==
  dm.pc = "done" =>
    /\ ~HasStartCode(dm.source) => dm.result = "NoStartCodes"
    /\ (HasStartCode(dm.source) /\ ~HasVopSegment(dm.source)) => dm.result = "NoVop"
    /\ EndsWithPrefix(dm.source) => dm.result # "Ok"
    /\ ( /\ HasStartCode(dm.source) /\ HasVopSegment(dm.source)
         /\ ~EndsWithPrefix(dm.source) ) => dm.result = "Ok"

\* C23: the call fails with "No MPEG-4 start codes found" when the input has
\* no 00 00 01; otherwise with the truncation error when fewer than four bytes
\* follow the last unit boundary, whether or not a VOP came before; otherwise
\* with "No VOP frames found" when no unit has code 0xB6; and succeeds in
\* every other case, however the reads cut the file.
C23_ErrorsByPrecedence ==
  dm.pc = "done" =>
    dm.result = IF ~HasStartCode(dm.source) THEN "NoStartCodes"
                ELSE IF LastSegmentShort(dm.source) THEN "Truncated"
                ELSE IF ~HasVopSegment(dm.source) THEN "NoVop"
                ELSE "Ok"
C23_Witness ==
  /\ dm.pc = "done" /\ dm.result = "Truncated"
  /\ ~HasVopSegment(dm.source)
  /\ dm.pos >= 1
C23_WitnessOverlap ==
  /\ dm.pc = "done" /\ dm.result = "Ok"
  /\ EndsWithPrefix(dm.source)

\* ---------------------------------------------------------------------------
\* Frame transforms: RGBA frames as sequences of bytes; pixel p (from 0) owns
\* bytes 4p..4p+3, which are entries 4p+1..4p+4 of the sequence.
\* ---------------------------------------------------------------------------
Clamp(value, lo, hi) == IF value < lo THEN lo ELSE IF value > hi THEN hi ELSE value
At(bytes, idx) == bytes[idx + 1]

\* A strength that takes a negative intensity by its magnitude.
strengthMagnitude(intensity) ==
  Clamp((IF intensity < 0 THEN 0 - intensity ELSE intensity) * 10, 0, 1000)
\* Blend strengths in thousandths: (intensity / 100.0).clamp(0.0, 1.0).
Strength(intensity) == Clamp(intensity * 10, 0, 1000)
FULL_STRENGTH == 999
GRAY_MIX == 275
BRIGHTNESS == 0 - 2
CHROMA_SHIFT == 2
MIN_SEGMENT == 2

\* workspace.rs: luma weights 0.299, 0.587, 0.114, rounded to the nearest.
luma(r, g, b) == Clamp((299 * r + 587 * g + 114 * b + 500) \div 1000, 0, 255)
\* blend_channel: round(a * (1 - mix) + b * mix), halves rounded up.
blend_channel(a, b, mix) ==
  Clamp((a * (1000 - mix) + b * mix + 500) \div 1000, 0, 255)
clamp_u8(value) == Clamp(value, 0, 255)

LumaMap(input) ==
  [p \in 0..(Len(input) \div 4 - 1) |->
     luma(At(input, 4 * p), At(input, 4 * p + 1), At(input, 4 * p + 2))]

in_luma_band(value, min, max) == value >= min /\ value <= max
resolve_luma_band(min_threshold, max_threshold) ==
  LET lo == Clamp(min_threshold, 0, 255)
      hi == Clamp(max_threshold, 0, 255)
  IN IF lo > hi THEN <<hi, lo>> ELSE <<lo, hi>>

\* The counting sort of sort_row_segment_by_luma, sort_col_segment_by_luma and
\* sort_block_by_luma: the three differ only in the scan order `scan` of the
\* segment's pixel indices.
Lumas == 0..255
ZeroCounts == [lum \in Lumas |-> 0]
RECURSIVE CountLumas(_, _, _)
CountLumas(luma_map, scan, luma_counts) ==
  IF scan = <<>> THEN luma_counts
  ELSE CountLumas(luma_map, Tail(scan),
                  [luma_counts EXCEPT ![luma_map[Head(scan)]] = @ + 1])
\* Lines 75-79: from luma 255 down, each offset is the number of pixels counted
\* at higher lumas.
RECURSIVE SumCounts(_, _)
SumCounts(luma_counts, lums) ==
  IF lums = {} THEN 0
  ELSE LET lum == CHOOSE l \in lums : TRUE
       IN luma_counts[lum] + SumCounts(luma_counts, lums \ {lum})
FillOffsets(luma_counts) ==
  LET counted == {l \in Lumas : luma_counts[l] # 0}
  IN [lum \in Lumas |-> SumCounts(luma_counts, {l \in counted : l > lum})]
RECURSIVE PlaceIndices(_, _, _, _)
PlaceIndices(luma_map, scan, luma_offsets, segment_indices) ==
  IF scan = <<>>
  THEN [segment_indices |-> segment_indices, luma_offsets |-> luma_offsets]
  ELSE LET lum == luma_map[Head(scan)]
           dest == luma_offsets[lum]
       IN PlaceIndices(luma_map, Tail(scan),
                       [luma_offsets EXCEPT ![lum] = @ + 1],
                       [segment_indices EXCEPT ![dest + 1] = Head(scan)])

\* A counting sort that keeps the histogram of the segment sorted before.
sortKeepsCounts(luma_map, scan, luma_counts, luma_offsets) ==
  IF scan = <<>>
  THEN [segment_indices |-> <<>>, luma_counts |-> luma_counts,
        luma_offsets |-> luma_offsets]
  ELSE LET counts == CountLumas(luma_map, scan, luma_counts)
           offsets == FillOffsets(counts)
           placed == PlaceIndices(luma_map, scan, offsets,
                                  [k \in 1..(offsets[0] + counts[0]) |-> 0])
       IN [segment_indices |-> SubSeq(placed.segment_indices, 1, Len(scan)),
           luma_counts |-> counts,
           luma_offsets |-> placed.luma_offsets]
\* segment_indices and the two arrays after the sort of the pixels `scan`.
sort_by_luma(luma_map, scan, luma_counts, luma_offsets) ==
  IF scan = <<>>
  THEN [segment_indices |-> <<>>, luma_counts |-> luma_counts,
        luma_offsets |-> luma_offsets]
  ELSE LET counts == CountLumas(luma_map, scan, ZeroCounts)
           offsets == FillOffsets(counts)
           placed == PlaceIndices(luma_map, scan, offsets, [k \in 1..Len(scan) |-> 0])
       IN [segment_indices |-> placed.segment_indices,
           luma_counts |-> counts,
           luma_offsets |-> placed.luma_offsets]

RowScan(row_start, start, end) == [k \in 1..Max(end - start, 0) |-> row_start + start + k - 1]
ColScan(width, x, start, end) == [k \in 1..Max(end - start, 0) |-> (start + k - 1) * width + x]
BlockScan(width, start_x, start_y, end_x, end_y) ==
  LET block_width == Max(end_x - start_x, 0)
      block_height == Max(end_y - start_y, 0)
  IN [k \in 1..(block_width * block_height) |->
        (start_y + ((k - 1) \div block_width)) * width + start_x + ((k - 1) % block_width)]
sort_row_segment_by_luma(luma_map, row_start, start, end, luma_counts, luma_offsets) ==
  sort_by_luma(luma_map, RowScan(row_start, start, end), luma_counts, luma_offsets)
sort_col_segment_by_luma(luma_map, width, x, start, end, luma_counts, luma_offsets) ==
  sort_by_luma(luma_map, ColScan(width, x, start, end), luma_counts, luma_offsets)
sort_block_by_luma(luma_map, width, start_x, start_y, end_x, end_y, luma_counts, luma_offsets) ==
  sort_by_luma(luma_map, BlockScan(width, start_x, start_y, end_x, end_y),
               luma_counts, luma_offsets)

fill_segment_bytes(input, segment_indices) ==
  [b \in 1..(4 * Len(segment_indices)) |->
     At(input, segment_indices[((b - 1) \div 4) + 1] * 4 + ((b - 1) % 4))]

\* blend_segment_bytes: pixel `offset` of the segment goes to the four bytes
\* at dest_start + offset * dest_stride; alpha is the segment pixel's.
blend_segment_bytes(output, dest_start, dest_stride, segment_bytes, segment_len, is_full_strength, strength) ==
  [b \in 1..Len(output) |->
     LET hits == {offset \in 0..(segment_len - 1) :
                    (b - 1) - (dest_start + offset * dest_stride) \in 0..3}
     IN IF hits = {} THEN output[b]
        ELSE LET offset == CHOOSE o \in hits : TRUE
                 channel == (b - 1) - (dest_start + offset * dest_stride)
                 sorted == At(segment_bytes, offset * 4 + channel)
             IN IF is_full_strength \/ channel = 3 THEN sorted
                ELSE blend_channel(output[b], sorted, strength)]

\* The write-back loops of pixelsort_block, lines 434-461: row-major in the tile.
BlendBlock(output, width, bx, by, end_x, end_y, segment_bytes, is_full_strength, strength) ==
  [b \in 1..Len(output) |->
     LET x == ((b - 1) \div 4) % width
         y == ((b - 1) \div 4) \div width
         channel == (b - 1) % 4
         offset == (y - by) * (end_x - bx) + (x - bx)
         sorted == At(segment_bytes, offset * 4 + channel)
     IN IF ~(x \in bx..(end_x - 1) /\ y \in by..(end_y - 1)) THEN output[b]
        ELSE IF is_full_strength \/ channel = 3 THEN sorted
        ELSE blend_channel(output[b], sorted, strength)]

\* The end of the run of in-band pixels that starts at `start`, found by the
\* inner while loops (lines 271-279 and 339-347); next(i) is the pixel at i.
RunEnd(luma_map, start, limit, min, max, next(_)) ==
  LET stops == {i \in (start + 1)..limit :
                  i = limit \/ ~in_luma_band(luma_map[next(i)], min, max)}
  IN CHOOSE i \in stops : \A other \in stops : i <= other

\* The workspace of a call: the frame being written and the two arrays of
\* the counting sort.  `pass` holds what the passes only read.
RECURSIVE pixelsort_horizontal(_, _, _, _)
pixelsort_horizontal(pass, ws, y, x) ==
  LET row_start == y * pass.width
      end == RunEnd(pass.luma, x, pass.width, pass.min, pass.max,
                    LAMBDA i : row_start + i)
      sorted == sort_row_segment_by_luma(pass.luma, row_start, x, end,
                                         ws.luma_counts, ws.luma_offsets)
      segment_bytes == fill_segment_bytes(pass.input, sorted.segment_indices)
  IN IF y >= pass.height THEN ws
     ELSE IF x >= pass.width THEN pixelsort_horizontal(pass, ws, y + 1, 0)
     ELSE IF ~in_luma_band(pass.luma[row_start + x], pass.min, pass.max)
     THEN pixelsort_horizontal(pass, ws, y, x + 1)
     ELSE IF end - x < MIN_SEGMENT THEN pixelsort_horizontal(pass, ws, y, end)
     ELSE pixelsort_horizontal(pass,
            [output |-> blend_segment_bytes(ws.output, row_start * 4 + x * 4, 4,
                          segment_bytes, Len(sorted.segment_indices),
                          pass.is_full_strength, pass.strength),
             luma_counts |-> sorted.luma_counts,
             luma_offsets |-> sorted.luma_offsets],
            y, end)

RECURSIVE pixelsort_vertical(_, _, _, _)
pixelsort_vertical(pass, ws, x, y) ==
  LET end == RunEnd(pass.luma, y, pass.height, pass.min, pass.max,
                    LAMBDA i : i * pass.width + x)
      sorted == sort_col_segment_by_luma(pass.luma, pass.width, x, y, end,
                                         ws.luma_counts, ws.luma_offsets)
      segment_bytes == fill_segment_bytes(pass.input, sorted.segment_indices)
  IN IF x >= pass.width THEN ws
     ELSE IF y >= pass.height THEN pixelsort_vertical(pass, ws, x + 1, 0)
     ELSE IF ~in_luma_band(pass.luma[y * pass.width + x], pass.min, pass.max)
     THEN pixelsort_vertical(pass, ws, x, y + 1)
     ELSE IF end - y < MIN_SEGMENT THEN pixelsort_vertical(pass, ws, x, end)
     ELSE pixelsort_vertical(pass,
            [output |-> blend_segment_bytes(ws.output, (y * pass.width + x) * 4,
                          pass.width * 4, segment_bytes, Len(sorted.segment_indices),
                          pass.is_full_strength, pass.strength),
             luma_counts |-> sorted.luma_counts,
             luma_offsets |-> sorted.luma_offsets],
            x, end)

RECURSIVE SumLumas(_, _)
SumLumas(luma_map, scan) ==
  IF scan = <<>> THEN 0 ELSE luma_map[Head(scan)] + SumLumas(luma_map, Tail(scan))

RECURSIVE pixelsort_block(_, _, _, _)
pixelsort_block(pass, ws, by, bx) ==
  LET end_x == Min(bx + pass.block_size, pass.width)
      end_y == Min(by + pass.block_size, pass.height)
      tile == BlockScan(pass.width, bx, by, end_x, end_y)
      avg == IF Len(tile) > 0 THEN SumLumas(pass.luma, tile) \div Len(tile) ELSE 0
      sorted == sort_block_by_luma(pass.luma, pass.width, bx, by, end_x, end_y,
                                   ws.luma_counts, ws.luma_offsets)
      segment_bytes == fill_segment_bytes(pass.input, sorted.segment_indices)
  IN IF by >= pass.height THEN ws
     ELSE IF bx >= pass.width THEN pixelsort_block(pass, ws, by + pass.block_size, 0)
     ELSE IF ~in_luma_band(avg, pass.min, pass.max)
     THEN pixelsort_block(pass, ws, by, bx + pass.block_size)
     ELSE pixelsort_block(pass,
            [output |-> BlendBlock(ws.output, pass.width, bx, by, end_x, end_y,
                          segment_bytes, pass.is_full_strength, pass.strength),
             luma_counts |-> sorted.luma_counts,
             luma_offsets |-> sorted.luma_offsets],
            by, bx + pass.block_size)

\* Post stack: red from x + shift, blue from x - shift, clamped at the edges.
chroma_shift_horizontal(src, width, height, shift) ==
  [b \in 1..Len(src) |->
     LET x == ((b - 1) \div 4) % width
         y == ((b - 1) \div 4) \div width
         channel == (b - 1) % 4
         r_x == Clamp(x + shift, 0, width - 1)
         b_x == Clamp(x - shift, 0, width - 1)
     IN IF channel = 0 THEN At(src, (y * width + r_x) * 4)
        ELSE IF channel = 2 THEN At(src, (y * width + b_x) * 4 + 2)
        ELSE src[b]]
\* apply_grade_noise with a noise amount of 0: no PRNG value is used.
apply_grade_noise(buffer, gray_mix, brightness) ==
  [b \in 1..Len(buffer) |->
     LET idx == ((b - 1) \div 4) * 4
         gray == luma(At(buffer, idx), At(buffer, idx + 1), At(buffer, idx + 2))
     IN IF (b - 1) % 4 = 3 THEN buffer[b]
        ELSE clamp_u8(blend_channel(buffer[b], gray, gray_mix) + brightness)]
apply_pixelsort_fx(output, width, height) ==
  apply_grade_noise(chroma_shift_horizontal(output, width, height, CHROMA_SHIFT),
                    GRAY_MIX, BRIGHTNESS)

parse_direction(value) ==
  IF value \in {"vertical", "block"} THEN value ELSE "horizontal"

\* pixelsort_frame: the frame a fresh workspace of width x height returns.
pixelsort_frame(input, width, height, config) ==
  LET strength == Strength(config.intensity)
      band == resolve_luma_band(config.threshold, config.max_threshold)
      pass == [input |-> input, luma |-> LumaMap(input), width |-> width,
              height |-> height, min |-> band[1], max |-> band[2],
              strength |-> strength, is_full_strength |-> strength >= FULL_STRENGTH,
              block_size |-> Max(config.block_size, 2)]
      prepared == [output |-> input, luma_counts |-> ZeroCounts,
                   luma_offsets |-> ZeroCounts]
      direction == parse_direction(config.direction)
      sorted == IF strength <= 1 THEN prepared
                ELSE IF direction = "horizontal" THEN pixelsort_horizontal(pass, prepared, 0, 0)
                ELSE IF direction = "vertical" THEN pixelsort_vertical(pass, prepared, 0, 0)
                ELSE pixelsort_block(pass, prepared, 0, 0)
  IN apply_pixelsort_fx(sorted.output, width, height)

\* ---------------------------------------------------------------------------
\* Modulo mapping (byte_range.rs).
\* ---------------------------------------------------------------------------
restore_alpha(output, source) ==
  [b \in 1..Len(output) |-> IF (b - 1) % 4 = 3 THEN source[b] ELSE output[b]]

\* Line 235: the source pixel, inside its block, of target pixel i.
mapped_index(i, stride, offset, block_len) == (i * stride + offset) % block_len

\* The loop of lines 228-255 before restore_alpha: target pixel i of each block
\* takes (or blends toward) the scratch copy of its mapped pixel.
ModuloMapBlocks(scratch, modulus, stride, mix, base_offset) ==
  LET pixel_count == Len(scratch) \div 4
  IN [b \in 1..Len(scratch) |->
        LET dst_index == (b - 1) \div 4
            channel == (b - 1) % 4
            block_start == (dst_index \div modulus) * modulus
            block_len == Min(pixel_count - block_start, modulus)
            offset == base_offset % block_len
            src_index == block_start
                           + mapped_index(dst_index - block_start, stride, offset, block_len)
            mapped == At(scratch, src_index * 4 + channel)
        IN IF block_len < 2 THEN scratch[b]
           ELSE IF mix >= FULL_STRENGTH THEN mapped
           ELSE IF channel < 3 THEN blend_channel(scratch[b], mapped, mix)
           ELSE scratch[b]]

process_modulo_mapping_frame(frame, config, frame_index) ==
  LET pixel_count == Len(frame) \div 4
      modulus == Min(Max(config.modulus, 2), pixel_count)
      stride == Max(config.stride, 1)
      mix == Strength(config.intensity)
      base_offset == config.offset + config.seed + frame_index
  IN IF Len(frame) = 0 \/ pixel_count < 2 \/ modulus < 2 \/ mix <= 0 THEN frame
     ELSE restore_alpha(ModuloMapBlocks(frame, modulus, stride, mix, base_offset), frame)

\* ---------------------------------------------------------------------------
\* Vaporwave (vaporwave.rs).
\* ---------------------------------------------------------------------------
COLOR_CYAN == <<0, 184, 255>>
COLOR_MAGENTA == <<255, 0, 193>>
COLOR_PURPLE == <<150, 0, 255>>
COLOR_TEAL == <<0, 255, 249>>
vaporwave_clamp_u8(value) == Min(value, 255)
normalize_thresholds(config) ==
  LET black == vaporwave_clamp_u8(config.black_threshold)
      cyan == Max(vaporwave_clamp_u8(config.cyan_max), black)
      magenta == Max(vaporwave_clamp_u8(config.magenta_max), cyan)
      purple == Max(vaporwave_clamp_u8(config.purple_max), magenta)
      teal == Max(vaporwave_clamp_u8(config.teal_max), purple)
      white == Max(vaporwave_clamp_u8(config.white_threshold), teal)
  IN [black |-> black, cyan |-> cyan, magenta |-> magenta, purple |-> purple,
      teal |-> teal, white |-> white]
InBand(r, g, b, above, upto) ==
  \A c \in {r, g, b} : c > above /\ c <= upto
map_vaporwave_color(r, g, b, thresholds) ==
  IF r <= thresholds.black /\ g <= thresholds.black /\ b <= thresholds.black
  THEN <<0, 0, 0>>
  ELSE IF r >= thresholds.white /\ g >= thresholds.white /\ b >= thresholds.white
  THEN <<255, 255, 255>>
  ELSE IF InBand(r, g, b, thresholds.black, thresholds.cyan) THEN COLOR_CYAN
  ELSE IF InBand(r, g, b, thresholds.cyan, thresholds.magenta) THEN COLOR_MAGENTA
  ELSE IF InBand(r, g, b, thresholds.magenta, thresholds.purple) THEN COLOR_PURPLE
  ELSE IF InBand(r, g, b, thresholds.purple, thresholds.teal) THEN COLOR_TEAL
  ELSE <<r, g, b>>

\* A vaporwave pass that writes the alpha byte like the colour bytes.
vaporwaveBlendsAlpha(frame, config) ==
  LET mix == Strength(config.intensity)
      thresholds == normalize_thresholds(config)
  IN IF Len(frame) = 0 \/ mix <= 0 THEN frame
     ELSE [b \in 1..Len(frame) |->
             LET idx == ((b - 1) \div 4) * 4
                 channel == (b - 1) % 4
                 mapped == map_vaporwave_color(At(frame, idx), At(frame, idx + 1),
                                               At(frame, idx + 2), thresholds)
             IN IF channel = 3 THEN blend_channel(frame[b], 255, mix)
                ELSE IF mix >= FULL_STRENGTH THEN mapped[channel + 1]
                ELSE blend_channel(frame[b], mapped[channel + 1], mix)]
process_vaporwave_frame(frame, config) ==
  LET mix == Strength(config.intensity)
      thresholds == normalize_thresholds(config)
  IN IF Len(frame) = 0 \/ mix <= 0 THEN frame
     ELSE [b \in 1..Len(frame) |->
             LET idx == ((b - 1) \div 4) * 4
                 channel == (b - 1) % 4
                 mapped == map_vaporwave_color(At(frame, idx), At(frame, idx + 1),
                                               At(frame, idx + 2), thresholds)
             IN IF channel = 3 THEN frame[b]
                ELSE IF mix >= FULL_STRENGTH THEN mapped[channel + 1]
                ELSE blend_channel(frame[b], mapped[channel + 1], mix)]

\* ---------------------------------------------------------------------------
\* Block shift (block_shift.rs).  A u32 is <<high 16 bits, low 16 bits>>.
\* ---------------------------------------------------------------------------
U16 == 65536
U32(value) == <<(value \div U16) % U16, value % U16>>
\* (x * y) mod 2^16 and (x * y) div 2^16 for 16-bit x and y, a byte of y at a time.
MulLow16(x, y) == (x * (y % 256) + ((x * (y \div 256)) % 256) * 256) % U16
MulHigh16(x, y) ==
  ((x * (y \div 256)) \div 256)
    + ((x * (y % 256) + ((x * (y \div 256)) % 256) * 256) \div U16)
wrapping_mul(a, c) ==
  <<(MulLow16(a[1], c[2]) + MulLow16(a[2], c[1]) + MulHigh16(a[2], c[2])) % U16,
    MulLow16(a[2], c[2])>>
wrapping_add(a, c) ==
  <<(a[1] + c[1] + ((a[2] + c[2]) \div U16)) % U16, (a[2] + c[2]) % U16>>
RECURSIVE XorBits(_, _, _)
XorBits(a, b, bits) ==
  IF bits = 0 THEN 0
  ELSE ((a + b) % 2) + 2 * XorBits(a \div 2, b \div 2, bits - 1)
Xor32(a, c) == <<XorBits(a[1], c[1], 16), XorBits(a[2], c[2], 16)>>
RECURSIVE Pow2(_)
Pow2(n) == IF n = 0 THEN 1 ELSE 2 * Pow2(n - 1)
\* rotate_left(n) for n < 16
rotate_left(a, n) ==
  LET keep == Pow2(16 - n)
  IN <<(a[1] % keep) * Pow2(n) + (a[2] \div keep),
       (a[2] % keep) * Pow2(n) + (a[1] \div keep)>>
\* a % range for a range below 2^15
RemU32(a, range) == ((a[1] % range) * (U16 % range) + a[2]) % range

SHIFT_LCG_MUL == U32(1664525)
SHIFT_LCG_ADD == U32(1013904223)
SHIFT_MIX_Y == U32(69069)
shift_lcg_next(rng) == wrapping_add(wrapping_mul(rng, SHIFT_LCG_MUL), SHIFT_LCG_ADD)

\* Integer division as Rust rounds it: toward zero.
TruncDiv(value, step) ==
  IF value >= 0 THEN value \div step ELSE 0 - ((0 - value) \div step)
\* A quantizer that rounds toward minus infinity.
quantizeFloor(value, step) == IF step <= 1 THEN value ELSE (value \div step) * step
quantize_offset(value, step) ==
  IF step <= 1 THEN value ELSE TruncDiv(value, step) * step

\* block_offset; seed and frame_index are u32 pairs (frame_index as u32).
block_offset(seed, frame_index, block_x, block_y, max_offset, step) ==
  LET mixed == Xor32(Xor32(Xor32(seed, wrapping_mul(frame_index, SHIFT_LCG_MUL)),
                           wrapping_mul(U32(block_x), SHIFT_LCG_ADD)),
                     wrapping_mul(U32(block_y), SHIFT_MIX_Y))
      first == shift_lcg_next(mixed)
      second == shift_lcg_next(first)
      range == max_offset * 2 + 1
      dx == RemU32(rotate_left(first, 5), range) - max_offset
      dy == RemU32(rotate_left(second, 9), range) - max_offset
  IN IF max_offset <= 0 THEN <<0, 0>>
     ELSE <<quantize_offset(dx, step), quantize_offset(dy, step)>>

\* Lines 261-263: the pixel of the input that pixel (x, y) shows.
SourcePixel(x, y, offset, width, height) ==
  <<Clamp(x + offset[1], 0, width - 1), Clamp(y + offset[2], 0, height - 1)>>

process_block_shift_frame(frame, width, height, config, frame_index) ==
  LET pixel_count == width * height
      block_size == Max(config.block_size, 2)
      max_offset == config.max_offset
      step == Max(config.offset_step, 1)
      mix == Strength(config.intensity)
  IN IF Len(frame) = 0 \/ width = 0 \/ height = 0 \/ pixel_count < 2
        \/ mix <= 0 \/ max_offset <= 0
     THEN frame
     ELSE [b \in 1..Len(frame) |->
             LET x == ((b - 1) \div 4) % width
                 y == ((b - 1) \div 4) \div width
                 channel == (b - 1) % 4
                 bx == (x \div block_size) * block_size
                 by == (y \div block_size) * block_size
                 source == SourcePixel(x, y,
                             block_offset(config.seed, frame_index, bx, by, max_offset, step),
                             width, height)
                 mapped == At(frame, (source[2] * width + source[1]) * 4 + channel)
             IN IF channel = 3 THEN frame[b]
                ELSE IF mix >= FULL_STRENGTH THEN mapped
                ELSE blend_channel(frame[b], mapped, mix)]

\* ---------------------------------------------------------------------------
\* One call of a frame transform on a fresh workspace.
\* ---------------------------------------------------------------------------
PixelA == <<10, 20, 30, 255>>
PixelB == <<200, 100, 50, 7>>
PixelC == <<40, 40, 40, 128>>
FramePixels == {PixelA, PixelB, PixelC}
FrameDims == {<<2, 2>>, <<4, 1>>}
FrameIndexes == {0, 1}
FrameIntensities == {0 - 10, 0, 50, 100}
FramesOf(dims) == {Flatten(pixels) : pixels \in [1..(dims[1] * dims[2]) -> FramePixels]}

PixelsortConfigs ==
  [intensity : FrameIntensities, threshold : {0, 30, 255}, max_threshold : {150, 255},
   block_size : {2}, direction : {"horizontal", "vertical", "block"}]
ModuloMappingConfigs ==
  [modulus : {2, 3, 4}, stride : {1, 2, 3}, offset : {0, 1}, intensity : FrameIntensities,
   seed : {0}]
BlockShiftConfigs ==
  [block_size : {2}, max_offset : {0, 1, 2}, offset_step : {1, 2},
   intensity : FrameIntensities, seed : {U32(42)}]
VaporwaveConfigs ==
  [intensity : FrameIntensities, black_threshold : {8, 300}, cyan_max : {64},
   magenta_max : {128}, purple_max : {192}, teal_max : {224}, white_threshold : {240}]

FrameCall(variant, config, output) ==
  /\ fx.pc = "ready"
  /\ fx' = [fx EXCEPT !.pc = "done", !.variant = variant, !.config = config,
                      !.output = output]
  /\ UNCHANGED beside_frames

PixelsortFrame ==
  \E config \in PixelsortConfigs :
    FrameCall("pixelsort", config, pixelsort_frame(fx.frame, fx.width, fx.height, config))
ModuloMappingFrame ==
  \E config \in ModuloMappingConfigs :
    FrameCall("modulo", config, process_modulo_mapping_frame(fx.frame, config, fx.frame_index))
BlockShiftFrame ==
  \E config \in BlockShiftConfigs :
    FrameCall("block_shift", config,
              process_block_shift_frame(fx.frame, fx.width, fx.height, config,
                                        U32(fx.frame_index)))
VaporwaveFrame ==
  \E config \in VaporwaveConfigs :
    FrameCall("vaporwave", config, process_vaporwave_frame(fx.frame, config))

NextFrames ==
  \/ PixelsortFrame
  \/ ModuloMappingFrame
  \/ BlockShiftFrame
  \/ VaporwaveFrame

InitFrames ==
  /\ InitPreviews
  /\ InitPipeline
  /\ dm = IdleDatamosh
  /\ enc = IdleEnc
  /\ ff = IdleFf
  /\ \E dims \in FrameDims, frame_index \in FrameIndexes :
       \E frame \in FramesOf(dims) :
         fx = [pc |-> "ready", width |-> dims[1], height |-> dims[2], frame |-> frame,
               frame_index |-> frame_index, variant |-> "none", config |-> <<>>,
               output |-> <<>>]

SpecFrames == InitFrames /\ [][NextFrames]_vars

\* Pixel p of a frame, its alpha byte and its colour.
Alpha(frame, p) == At(frame, 4 * p + 3)
Rgb(frame, p) == <<At(frame, 4 * p), At(frame, 4 * p + 1), At(frame, 4 * p + 2)>>
PixelIndexes == 0..(fx.width * fx.height - 1)
AlphaInPlace == \A p \in PixelIndexes : Alpha(fx.output, p) = Alpha(fx.frame, p)
\* The pixels in `group` carry the same alpha bytes before and after, each as often.
SameAlphas(group) ==
  \A alpha \in 0..255 :
    Cardinality({p \in group : Alpha(fx.output, p) = alpha})
      = Cardinality({p \in group : Alpha(fx.frame, p) = alpha})
\* The rows, columns or tiles inside which a pixelsort direction moves pixels.
SortGroups(direction, block_size) ==
  IF direction = "horizontal"
  THEN {{p \in PixelIndexes : p \div fx.width = y} : y \in 0..(fx.height - 1)}
  ELSE IF direction = "vertical"
  THEN {{p \in PixelIndexes : p % fx.width = x} : x \in 0..(fx.width - 1)}
  ELSE {{p \in PixelIndexes : /\ (p % fx.width) \div block_size = tx
                               /\ (p \div fx.width) \div block_size = ty} :
          tx \in 0..(fx.width - 1), ty \in 0..(fx.height - 1)}

\* C24 as stated: every transform returns a frame of the input's length whose
\* alpha bytes (positions 4k+3) equal the input's at the same positions.
C24_AlphaKeptInPlace ==
  fx.pc = "done" => (Len(fx.output) = Len(fx.frame) /\ AlphaInPlace)

\* C24: every transform returns a frame of the input's length; vaporwave,
\* modulo mapping and block shift keep each alpha byte in place; pixelsort
\* keeps, in every row (horizontal), column (vertical) or tile (block), the
\* same alpha bytes, moved with the pixels it sorts.
C24_AlphaKeptOrMovedWithPixel ==
  fx.pc = "done" =>
    /\ Len(fx.output) = Len(fx.frame)
    /\ fx.variant # "pixelsort" => AlphaInPlace
    /\ fx.variant = "pixelsort" =>
         \A group \in SortGroups(parse_direction(fx.config.direction),
                                 Max(fx.config.block_size, 2)) :
           SameAlphas(group)
C24_Witness ==
  /\ fx.pc = "done" /\ fx.variant = "pixelsort" /\ fx.config.direction = "vertical"
  /\ fx.config.intensity = 50
  /\ ~AlphaInPlace

\* C25 as stated: with an intensity of 0 or less every transform returns its
\* input frame, byte for byte.
C25_ZeroIntensityIdentity ==
  (fx.pc = "done" /\ fx.config.intensity <= 0) => fx.output = fx.frame

\* C25: with an intensity of 0 or less vaporwave, modulo mapping and block
\* shift return their input frame byte for byte; pixelsort skips the sort and
\* returns the input with its post stack applied (chroma shift, desaturation,
\* brightness), alpha bytes in place.
C25_ZeroIntensitySkipsEffect ==
  (fx.pc = "done" /\ fx.config.intensity <= 0) =>
    IF fx.variant = "pixelsort"
    THEN fx.output = apply_pixelsort_fx(fx.frame, fx.width, fx.height) /\ AlphaInPlace
    ELSE fx.output = fx.frame
C25_Witness ==
  /\ fx.pc = "done" /\ fx.config.intensity < 0
  /\ fx.variant = "block_shift" /\ fx.config.max_offset = 2
  /\ fx.output = fx.frame
  /\ \E p, q \in PixelIndexes : Rgb(fx.frame, p) # Rgb(fx.frame, q)

\* The pixels of the block of `modulus` pixels that starts at block_start.
BlockPixels(block_start, modulus) ==
  {p \in PixelIndexes : p >= block_start /\ p < block_start + modulus}
\* C26: modulo mapping at intensity 100 permutes the pixels of every block:
\* each colour of the input block appears in the output block as often as in
\* the input block.
C26_ModuloMappingPermutes ==
  (fx.pc = "done" /\ fx.variant = "modulo" /\ fx.config.intensity = 100) =>
    \A block_start \in {p \in PixelIndexes : p % fx.config.modulus = 0} :
      \A pixel \in FramePixels :
        LET colour == SubSeq(pixel, 1, 3)
            block == BlockPixels(block_start, fx.config.modulus)
        IN Cardinality({p \in block : Rgb(fx.output, p) = colour})
             = Cardinality({p \in block : Rgb(fx.frame, p) = colour})

\* ---------------------------------------------------------------------------
\* The counting sorts on one workspace, called segment after segment: the
\* arrays luma_counts and luma_offsets stay as the previous call left them.
\* ---------------------------------------------------------------------------
SortWidth == 3
SortHeight == 2
SortBlockSize == 2
SortLumas == {10, 200}

SortCall(call, pixels, sorted) ==
  /\ fx.pc \in {"ready", "sorted"}
  /\ fx' = [fx EXCEPT !.pc = "sorted", !.call = call, !.pixels = pixels,
                      !.segment_indices = sorted.segment_indices,
                      !.luma_counts = sorted.luma_counts,
                      !.luma_offsets = sorted.luma_offsets,
                      !.stale = \E p \in pixels : fx.luma_counts[fx.luma[p]] > 0]
  /\ UNCHANGED beside_frames

SortRowSegment ==
  \E y \in 0..(fx.height - 1), start \in 0..fx.width, end \in 0..fx.width :
    /\ start <= end
    /\ SortCall("row", {y * fx.width + x : x \in start..(end - 1)},
                sort_row_segment_by_luma(fx.luma, y * fx.width, start, end,
                                         fx.luma_counts, fx.luma_offsets))
SortColSegment ==
  \E x \in 0..(fx.width - 1), start \in 0..fx.height, end \in 0..fx.height :
    /\ start <= end
    /\ SortCall("col", {y * fx.width + x : y \in start..(end - 1)},
                sort_col_segment_by_luma(fx.luma, fx.width, x, start, end,
                                         fx.luma_counts, fx.luma_offsets))
SortBlock ==
  \E tx \in 0..((fx.width - 1) \div SortBlockSize),
     ty \in 0..((fx.height - 1) \div SortBlockSize) :
    LET bx == tx * SortBlockSize
        by == ty * SortBlockSize
        end_x == Min(bx + SortBlockSize, fx.width)
        end_y == Min(by + SortBlockSize, fx.height)
    IN SortCall("block",
                {y * fx.width + x : x \in bx..(end_x - 1), y \in by..(end_y - 1)},
                sort_block_by_luma(fx.luma, fx.width, bx, by, end_x, end_y,
                                   fx.luma_counts, fx.luma_offsets))

NextSort ==
  \/ SortRowSegment
  \/ SortColSegment
  \/ SortBlock

InitSort ==
  /\ InitPreviews
  /\ InitPipeline
  /\ dm = IdleDatamosh
  /\ enc = IdleEnc
  /\ ff = IdleFf
  /\ \E luma_map \in [0..(SortWidth * SortHeight - 1) -> SortLumas] :
       fx = [pc |-> "ready", width |-> SortWidth, height |-> SortHeight,
             luma |-> luma_map, call |-> "none", pixels |-> {},
             segment_indices |-> <<>>, luma_counts |-> ZeroCounts,
             luma_offsets |-> ZeroCounts, stale |-> FALSE]

SpecSort == InitSort /\ [][NextSort]_vars

\* C27: after each counting sort segment_indices holds exactly the segment's
\* pixel indices, each once, by non-increasing luma, and pixels of equal luma
\* in their scan order (increasing pixel index in all three scans), whatever
\* the arrays held from the segment sorted before.
C27_CountingSortStable ==
  fx.pc = "sorted" =>
    LET sorted == fx.segment_indices
    IN /\ Len(sorted) = Cardinality(fx.pixels)
       /\ {sorted[k] : k \in 1..Len(sorted)} = fx.pixels
       /\ \A j, k \in 1..Len(sorted) :
            j < k => \/ fx.luma[sorted[j]] > fx.luma[sorted[k]]
                     \/ /\ fx.luma[sorted[j]] = fx.luma[sorted[k]]
                        /\ sorted[j] < sorted[k]
C27_Witness ==
  /\ fx.pc = "sorted" /\ fx.call = "block"
  /\ fx.stale
  /\ \E j, k \in 1..Len(fx.segment_indices) :
       /\ j < k /\ fx.segment_indices[j] > fx.segment_indices[k]
  /\ \E p, q \in fx.pixels : p # q /\ fx.luma[p] = fx.luma[q]

\* ---------------------------------------------------------------------------
\* block_offset called for one block, and the source pixels of a frame of
\* OffsetWidth x OffsetHeight derived from its result.
\* ---------------------------------------------------------------------------
MaxMaxOffset == 3
MaxOffsetStep == 3
OffsetWidth == 4
OffsetHeight == 2
OffsetSeeds == {U32(0), U32(42), <<32768, 0>>, <<65535, 65535>>}
OffsetFrameIndexes == {U32(0), U32(1), <<65535, 65535>>}
OffsetBlocks == {0, 2, 4, 6}

BlockOffsetCall ==
  /\ fx.pc = "ready"
  /\ Len(fx.offsets) < 2
  /\ fx' = [fx EXCEPT !.offsets =
              Append(@, block_offset(fx.seed, fx.frame_index, fx.block_x, fx.block_y,
                                     fx.max_offset, fx.step))]
  /\ UNCHANGED beside_frames
\* Lines 257-266: the pixels of the frame each read their source pixel.
BlockOffsetApply ==
  /\ fx.pc = "ready"
  /\ fx.offsets # <<>>
  /\ fx' = [fx EXCEPT !.pc = "done",
              !.sources = [p \in 0..(OffsetWidth * OffsetHeight - 1) |->
                             SourcePixel(p % OffsetWidth, p \div OffsetWidth,
                                         fx.offsets[Len(fx.offsets)],
                                         OffsetWidth, OffsetHeight)]]
  /\ UNCHANGED beside_frames

NextOffset ==
  \/ BlockOffsetCall
  \/ BlockOffsetApply

InitOffset ==
  /\ InitPreviews
  /\ InitPipeline
  /\ dm = IdleDatamosh
  /\ enc = IdleEnc
  /\ ff = IdleFf
  /\ \E seed \in OffsetSeeds, frame_index \in OffsetFrameIndexes,
        block_x \in OffsetBlocks, block_y \in OffsetBlocks,
        max_offset \in (0 - 1)..MaxMaxOffset, step \in 1..MaxOffsetStep :
       fx = [pc |-> "ready", seed |-> seed, frame_index |-> frame_index,
             block_x |-> block_x, block_y |-> block_y, max_offset |-> max_offset,
             step |-> step, offsets |-> <<>>, sources |-> <<>>]

SpecOffset == InitOffset /\ [][NextOffset]_vars

Multiple(value, step) == value % step = 0
Within(value, bound) == value >= 0 - bound /\ value <= bound

Str(name) == <<name>>
DigitChars == <<"0", "1", "2", "3", "4", "5", "6", "7", "8", "9">>
\* A u32 divided by ten: quotient and remainder.
DivTen(a) ==
  LET low == (a[1] % 10) * U16 + a[2]
  IN [quotient |-> <<a[1] \div 10, low \div 10>>, remainder |-> low % 10]
RECURSIVE to_string(_)
to_string(a) ==
  IF a[1] = 0 /\ a[2] < 10 THEN <<DigitChars[a[2] + 1]>>
  ELSE to_string(DivTen(a).quotient) \o <<DigitChars[DivTen(a).remainder + 1]>>
\* format!("{fps:.3}") of an fps given in thousandths.
FormatFps(fps_milli) ==
  to_string(U32(fps_milli \div 1000)) \o <<Dot>>
    \o <<DigitChars[((fps_milli \div 100) % 10) + 1],
         DigitChars[((fps_milli \div 10) % 10) + 1],
         DigitChars[(fps_milli % 10) + 1]>>

U32Less(a, c) == a[1] < c[1] \/ (a[1] = c[1] /\ a[2] < c[2])
U32_MAX == <<65535, 65535>>
MIN_MAXRATE == 1200
\* A cap passed on as supplied.
vbvMaxrateAsGiven(max_bitrate) == max_bitrate
\* max_bitrate.max(1200)
vbv_maxrate(max_bitrate) ==
  IF U32Less(max_bitrate, U32(MIN_MAXRATE)) THEN U32(MIN_MAXRATE) ELSE max_bitrate
\* maxrate.saturating_mul(2)
vbv_bufsize(maxrate) ==
  IF maxrate[1] >= 32768 THEN U32_MAX
  ELSE <<maxrate[1] * 2 + ((maxrate[2] * 2) \div U16), (maxrate[2] * 2) % U16>>

build_encode_args(width, height, fps_milli, encoding, output_path, pixel_format) ==
  LET format == ToLowercase(TrimStartMatches(Trim(encoding.format), {Dot}))
      input == << Str("-y"), Str("-hide_banner"), Str("-loglevel"), Str("error"),
                  Str("-f"), Str("rawvideo"), Str("-pix_fmt"), pixel_format,
                  Str("-s"), to_string(U32(width)) \o <<"x">> \o to_string(U32(height)),
                  Str("-r"), FormatFps(fps_milli), Str("-i"), Str("-") >>
      codec ==
        IF encoding.encoder = "h264_nvenc"
        THEN << Str("-c:v"), Str("h264_nvenc"), Str("-preset"), encoding.preset,
                Str("-rc"), Str("vbr"), Str("-cq"),
                to_string(U32(UnwrapOr(encoding.cq, 19))), Str("-b:v"), Str("0") >>
        ELSE IF encoding.encoder = "libvpx-vp9"
        THEN << Str("-c:v"), Str("libvpx-vp9"), Str("-deadline"),
                UnwrapOr(encoding.vp9_deadline, Str("good")), Str("-cpu-used"),
                to_string(U32(UnwrapOr(encoding.vp9_cpu_used, 4))),
                Str("-row-mt"), Str("1") >>
             \o (IF encoding.target_bitrate_kbps # None
                 THEN << Str("-b:v"),
                         to_string(Unwrap(encoding.target_bitrate_kbps)) \o <<"k">> >>
                 ELSE << Str("-crf"), to_string(U32(UnwrapOr(encoding.crf, 30))),
                         Str("-b:v"), Str("0") >>)
        ELSE << Str("-c:v"), Str("libx264"), Str("-preset"), encoding.preset,
                Str("-crf"), to_string(U32(UnwrapOr(encoding.crf, 20))) >>
      maxrate == vbv_maxrate(Unwrap(encoding.max_bitrate_kbps))
      vbv ==
        IF encoding.max_bitrate_kbps # None /\ encoding.encoder # "libvpx-vp9"
        THEN << Str("-maxrate"), to_string(maxrate) \o <<"k">>,
                Str("-bufsize"), to_string(vbv_bufsize(maxrate)) \o <<"k">> >>
        ELSE <<>>
      movflags ==
        IF format \in {Str("mp4"), Str("m4v"), Str("mov")}
        THEN << Str("-movflags"), Str("+faststart") >> ELSE <<>>
  IN input \o codec \o vbv \o movflags \o << Str("-pix_fmt"), Str("yuv420p") >>
       \o encoding.extra_encode_args \o <<output_path>>

Encoders == {"libx264", "h264_nvenc", "libvpx-vp9", "libx265"}
MaxBitrates ==
  {None, Some(U32(1)), Some(U32(800)), Some(U32(1199)), Some(U32(1200)), Some(U32(5000)),
   Some(<<32767, 65535>>), Some(<<32768, 0>>), Some(U32_MAX)}
EncodeFormats == {Str("mp4"), <<Space, Dot, "MP4">>, Str("webm")}
NativeEncodings ==
  [encoder : Encoders, preset : {Str("medium")}, crf : {None, Some(23)}, cq : {None},
   max_bitrate_kbps : MaxBitrates, target_bitrate_kbps : {None, Some(U32(2000))},
   vp9_deadline : {None}, vp9_cpu_used : {None}, format : EncodeFormats,
   extra_encode_args : {<<>>, <<Str("-tune"), Str("film")>>}]

BuildEncodeArgs ==
  /\ enc.pc = "ready"
  /\ enc' = [enc EXCEPT !.pc = "done",
               !.args = build_encode_args(enc.width, enc.height, enc.fps_milli,
                                          enc.encoding, enc.output_path, Str("rgba"))]
  /\ UNCHANGED beside_args

NextArgs == BuildEncodeArgs

InitArgs ==
  /\ InitPreviews
  /\ InitPipeline
  /\ dm = IdleDatamosh
  /\ fx = IdleFx
  /\ ff = IdleFf
  /\ \E encoding \in NativeEncodings :
       enc = [pc |-> "ready", width |-> 640, height |-> 360, fps_milli |-> 29970,
              encoding |-> encoding, output_path |-> Str("out"), args |-> <<>>]

SpecArgs == InitArgs /\ [][NextArgs]_vars

\* The argument that follows the option `name`, None when the option is absent.
ArgAfter(args, name) ==
  LET at == {i \in 1..(Len(args) - 1) : args[i] = Str(name)}
  IN IF at = {} THEN None ELSE Some(args[1 + CHOOSE i \in at : \A other \in at : i <= other])
HasArg(args, name) == \E i \in 1..Len(args) : args[i] = Str(name)
\* The u32 a sequence of decimal digits denotes.
RECURSIVE ParseDigits(_, _)
ParseDigits(chars, value) ==
  IF chars = <<>> THEN value
  ELSE LET digit == (CHOOSE d \in 1..10 : DigitChars[d] = Head(chars)) - 1
           low == value[2] * 10 + digit
       IN ParseDigits(Tail(chars), <<(value[1] * 10 + (low \div U16)) % U16, low % U16>>)
\* The number of an argument such as 1200k, None when it does not end in k.
Kbps(arg) ==
  IF arg # None /\ Len(arg[1]) >= 2 /\ arg[1][Len(arg[1])] = "k"
  THEN Some(ParseDigits(SubSeq(arg[1], 1, Len(arg[1]) - 1), U32(0)))
  ELSE None
CapsBitrate(encoding) == encoding.encoder # "libvpx-vp9" /\ encoding.max_bitrate_kbps # None

\* C29 as stated: for the x264 and nvenc encoders a supplied max bitrate M
\* gives -maxrate M and -bufsize 2*M; without one, and for libvpx-vp9, neither
\* option appears.
C29_MaxrateAsSupplied ==
  enc.pc = "done" =>
    IF enc.encoding.encoder \in {"libx264", "h264_nvenc"}
       /\ enc.encoding.max_bitrate_kbps # None
    THEN /\ Kbps(ArgAfter(enc.args, "-maxrate")) = enc.encoding.max_bitrate_kbps
         /\ Kbps(ArgAfter(enc.args, "-bufsize"))
              = Some(wrapping_add(Unwrap(enc.encoding.max_bitrate_kbps),
                                  Unwrap(enc.encoding.max_bitrate_kbps)))
         /\ ~U32Less(Unwrap(Kbps(ArgAfter(enc.args, "-bufsize"))),
                     Unwrap(enc.encoding.max_bitrate_kbps))
    ELSE (enc.encoding.max_bitrate_kbps = None \/ enc.encoding.encoder = "libvpx-vp9")
           => (~HasArg(enc.args, "-maxrate") /\ ~HasArg(enc.args, "-bufsize"))

\* C29: for every encoder but libvpx-vp9 a supplied max bitrate M (kbps) gives
\* -maxrate with max(M, 1200) and -bufsize with twice that, capped at
\* 4294967295, each written in decimal and followed by k; without a max
\* bitrate, and for libvpx-vp9, neither option appears.
C29_MaxrateFloored ==
  enc.pc = "done" =>
    IF CapsBitrate(enc.encoding)
    THEN LET supplied == Unwrap(enc.encoding.max_bitrate_kbps)
             maxrate == Kbps(ArgAfter(enc.args, "-maxrate"))
             bufsize == Kbps(ArgAfter(enc.args, "-bufsize"))
         IN /\ maxrate # None /\ bufsize # None
            /\ ~U32Less(Unwrap(maxrate), U32(MIN_MAXRATE))
            /\ ~U32Less(Unwrap(maxrate), supplied)
            /\ Unwrap(maxrate) \in {supplied, U32(MIN_MAXRATE)}
            /\ IF Unwrap(maxrate)[1] >= 32768 THEN Unwrap(bufsize) = U32_MAX
               ELSE Unwrap(bufsize) = wrapping_add(Unwrap(maxrate), Unwrap(maxrate))
    ELSE ~HasArg(enc.args, "-maxrate") /\ ~HasArg(enc.args, "-bufsize")
C29_Witness ==
  /\ enc.pc = "done" /\ enc.encoding.encoder = "h264_nvenc"
  /\ enc.encoding.max_bitrate_kbps = Some(U32(800))
  /\ ArgAfter(enc.args, "-maxrate") = Some(<<"1", "2", "0", "0", "k">>)
  /\ ArgAfter(enc.args, "-bufsize") = Some(<<"2", "4", "0", "0", "k">>)

\* ---------------------------------------------------------------------------
\* The ffmpeg command bridge (ffmpeg/jobs.rs): commands run on the async
\* runtime, so calls interleave wherever one of them releases the job lock.
\* ---------------------------------------------------------------------------
Ffmpeg == <<"f", "f", "m", "p", "e", "g">>
Ffprobe == <<"f", "f", "p", "r", "o", "b", "e">>
Programs ==
  {Ffmpeg, Ffprobe, <<Space, "F", "F", "m", "p", "e", "g", Space>>,
   <<"F", "f", "P", "r", "o", "b", "e">>, Ffmpeg \o <<Dot, "e", "x", "e">>,
   <<"s", "h">>, <<>>, <<"f", "f", Space, "m", "p", "e", "g">>}
FfmpegJobIds == {<<"a">>, <<Space, "a", Space>>, <<"b">>, <<Space>>}
FfmpegCalls == {1, 2}
ProgramError == "Only ffmpeg or ffprobe can be executed."
FfmpegChildren == {1, 2}
IdleFfmpegCall ==
  [pc |-> "idle", op |-> "none", program |-> <<>>, job_id |-> <<>>, result |-> NoResult,
   child |-> 0]

\* FfmpegJobs is a map from job id to child; children are numbered in the
\* order of their spawn, and ff.children[n] is the id child n was spawned
\* under.
JobsInsert(jobs, job_id, ch) ==
  [id \in DOMAIN jobs \cup {job_id} |-> IF id = job_id THEN ch ELSE jobs[id]]
JobsRemove(jobs, job_id) == [id \in DOMAIN jobs \ {job_id} |-> jobs[id]]

\* A check that accepts every name that begins with an accepted name.
validateProgramPrefix(program) ==
  \E name \in {Ffmpeg, Ffprobe} :
    Len(program) >= Len(name) /\ SubSeq(program, 1, Len(name)) = name
\* validate_program: Ok exactly for "ffmpeg" and "ffprobe".
validate_program(program) == program \in {Ffmpeg, Ffprobe}

FfmpegReturn(c, op, program, result) ==
  [ff EXCEPT !.calls[c] = [pc |-> "done", op |-> op, program |-> program,
                           job_id |-> @.job_id, result |-> result, child |-> 0]]

\* ffmpeg_execute, lines 68-90: the process runs to its end inside the call,
\* unless it cannot be started.
ffmpeg_execute(c, program) ==
  /\ ff.calls[c].pc = "idle"
  /\ LET name == ToLowercase(Trim(program))
     IN IF ~validate_program(name)
        THEN ff' = FfmpegReturn(c, "execute", program, ProgramError)
        ELSE \E started \in BOOLEAN :
               ff' = [FfmpegReturn(c, "execute", program,
                                   IF started THEN "Ok" ELSE "SpawnError")
                        EXCEPT !.resolved = @ \cup {name},
                               !.spawned = IF started THEN @ \cup {name} ELSE @]
  /\ UNCHANGED beside_ffmpeg

\* ffmpeg_spawn, lines 101-112: validation and the first look at the registry.
ffmpeg_spawn(c, program, raw_job_id) ==
  /\ ff.calls[c].pc = "idle"
  /\ LET name == ToLowercase(Trim(program))
         job_id == Trim(raw_job_id)
     IN IF ~validate_program(name)
        THEN ff' = FfmpegReturn(c, "spawn", program, ProgramError)
        ELSE IF job_id = <<>>
        THEN ff' = FfmpegReturn(c, "spawn", program, "ffmpeg job id is required.")
        ELSE IF job_id \in DOMAIN ff.jobs
        THEN ff' = FfmpegReturn(c, "spawn", program, "ffmpeg job id already exists.")
        ELSE ff' = [ff EXCEPT !.calls[c] =
                      [pc |-> "checked", op |-> "spawn", program |-> program,
                       job_id |-> job_id, result |-> NoResult, child |-> 0]]
  /\ UNCHANGED beside_ffmpeg

\* Lines 114-119: the command is resolved and the child spawned.
FfmpegSpawnChild(c, ch) ==
  /\ ff.calls[c].pc = "checked"
  /\ LET name == ToLowercase(Trim(ff.calls[c].program))
     IN \E started \in BOOLEAN :
          IF started
          THEN /\ ch = Len(ff.children) + 1
               /\ ff' = [ff EXCEPT !.calls[c].pc = "spawned",
                                   !.calls[c].child = ch,
                                   !.children = Append(@, ff.calls[c].job_id),
                                   !.resolved = @ \cup {name},
                                   !.spawned = @ \cup {name}]
          ELSE ff' = [FfmpegReturn(c, "spawn", ff.calls[c].program, "SpawnError")
                        EXCEPT !.resolved = @ \cup {name}]
  /\ UNCHANGED beside_ffmpeg

\* Lines 121-134 and 175-177: the second look at the registry; a child whose
\* id was taken meanwhile is killed, the other is inserted and the task that
\* drains its events is started.
FfmpegSpawnInsert(c) ==
  /\ ff.calls[c].pc = "spawned"
  /\ IF ff.calls[c].job_id \in DOMAIN ff.jobs
     THEN ff' = [FfmpegReturn(c, "spawn", ff.calls[c].program,
                              "ffmpeg job id already exists.")
                   EXCEPT !.killed = @ \cup {ff.calls[c].child}]
     ELSE ff' = [FfmpegReturn(c, "spawn", ff.calls[c].program, "Ok")
                   EXCEPT !.jobs = JobsInsert(@, ff.calls[c].job_id, ff.calls[c].child),
                          !.drains = @ \cup {ff.calls[c].child}]
  /\ UNCHANGED beside_ffmpeg

\* Lines 134-173: the event stream of child `ch` ends (the child has exited
\* or was killed) and its task removes the entry under the id it was given.
FfmpegChildClosed(ch) ==
  /\ ch \in ff.drains
  /\ ff' = [ff EXCEPT !.jobs = JobsRemove(@, ff.children[ch]),
                      !.drains = @ \ {ch}]
  /\ UNCHANGED beside_ffmpeg

\* ffmpeg_kill, lines 181-191.
ffmpeg_kill(c, raw_job_id) ==
  /\ ff.calls[c].pc = "idle"
  /\ LET trimmed == Trim(raw_job_id)
     IN IF trimmed = <<>> \/ trimmed \notin DOMAIN ff.jobs
        THEN ff' = FfmpegReturn(c, "kill", <<>>, "Ok")
        ELSE \E killed \in BOOLEAN :
               ff' = [FfmpegReturn(c, "kill", <<>>, IF killed THEN "Ok" ELSE "KillError")
                        EXCEPT !.jobs = JobsRemove(@, trimmed),
                               !.killed = IF killed THEN @ \cup {ff.jobs[trimmed]} ELSE @]
  /\ UNCHANGED beside_ffmpeg

\* The caller has its answer and may call again.
FfmpegNextCall(c) ==
  /\ ff.calls[c].pc = "done"
  /\ ff' = [ff EXCEPT !.calls[c] = IdleFfmpegCall]
  /\ UNCHANGED beside_ffmpeg

NextFfmpeg ==
  \/ \E c \in FfmpegCalls, program \in Programs : ffmpeg_execute(c, program)
  \/ \E c \in FfmpegCalls, program \in Programs, job_id \in FfmpegJobIds :
       ffmpeg_spawn(c, program, job_id)
  \/ \E c \in FfmpegCalls, ch \in FfmpegChildren : FfmpegSpawnChild(c, ch)
  \/ \E c \in FfmpegCalls : FfmpegSpawnInsert(c)
  \/ \E ch \in FfmpegChildren : FfmpegChildClosed(ch)
  \/ \E c \in FfmpegCalls, job_id \in FfmpegJobIds : ffmpeg_kill(c, job_id)
  \/ \E c \in FfmpegCalls : FfmpegNextCall(c)

InitFfmpeg ==
  /\ InitPreviews
  /\ InitPipeline
  /\ dm = IdleDatamosh
  /\ fx = IdleFx
  /\ enc = IdleEnc
  /\ ff = [jobs |-> <<>>, children |-> <<>>, drains |-> {}, killed |-> {},
           resolved |-> {}, spawned |-> {},
           calls |-> [c \in FfmpegCalls |-> IdleFfmpegCall]]

SpecFfmpeg == InitFfmpeg /\ [][NextFfmpeg]_vars

\* The name is, once trimmed and lowercased, exactly ffmpeg or ffprobe.
AcceptedName(program) == ToLowercase(Trim(program)) \in {Ffmpeg, Ffprobe}
\* Call c of ffmpeg_execute or ffmpeg_spawn begins in this step.
BridgeCallBegins(c) ==
  ff.calls[c].pc = "idle" /\ ff'.calls[c].op \in {"execute", "spawn"}

\* C30: only ffmpeg and ffprobe are ever resolved or spawned; a call of
\* ffmpeg_execute or ffmpeg_spawn with any other name returns the error at
\* once, resolves and spawns nothing and leaves the job registry unchanged.
C30_OnlyFfmpegRuns ==
  [][ /\ ff'.resolved \subseteq {Ffmpeg, Ffprobe}
      /\ ff'.spawned \subseteq {Ffmpeg, Ffprobe}
      /\ \A c \in FfmpegCalls :
           (BridgeCallBegins(c) /\ ~AcceptedName(ff'.calls[c].program)) =>
             /\ ff'.calls[c].pc = "done"
             /\ ff'.calls[c].result = ProgramError
             /\ ff'.jobs = ff.jobs
             /\ ff'.resolved = ff.resolved
             /\ ff'.spawned = ff.spawned
      /\ \A c \in FfmpegCalls :
           (ff'.calls[c].pc \in {"checked", "spawned"}
              \/ (ff'.calls[c].op \in {"execute", "spawn"} /\ ff'.calls[c].result = "Ok"))
             => AcceptedName(ff'.calls[c].program) ]_vars
C30_Witness ==
  /\ DOMAIN ff.jobs = {<<"a">>}
  /\ ff.spawned = {Ffmpeg, Ffprobe}
  /\ ff.calls[1].pc = "done" /\ ff.calls[1].op = "spawn"
  /\ ff.calls[1].program = Ffmpeg \o <<Dot, "e", "x", "e">>
  /\ ff.calls[1].result = ProgramError
  /\ ff.calls[2].pc = "spawned"

\* ------------------------------------------------------------ datamosh PRNG
\* C33: every value the LCG hands out, r = roll / 0xFFFFFF with roll the bits
\* 8..31 of the state after the draw, satisfies 0 <= r < 1 whatever the seed,
\* so with drop probability 1 the test r < probability holds at every draw.
C33_RollBelowOne ==
  dm.draws > 0 =>
    /\ roll_of(dm.rng) >= 0
    /\ roll_of(dm.rng) < ROLL_MAX
    /\ drop_probability(dm.intensity) = 100 => ~RollAtLeast(roll_of(dm.rng), 100)

\* ------------------------------------------------------------ window scans
\* window_index of the whole-file implementation: the position of the first
\* window that holds the time, by a scan from the front.
window_index_position(vop_index, fps, windows) ==
  LET hits == {i \in 0..(Len(windows) - 1) :
                 /\ ~TimeBefore(vop_index, fps, windows[i + 1].start)
                 /\ ~TimeAfter(vop_index, fps, windows[i + 1].end)}
  IN IF hits = {} THEN None
     ELSE Some(CHOOSE i \in hits : \A other \in hits : i <= other)

MaxWindows == 3        \* scene windows in a list
MaxWindowTime == 4     \* latest start or end of a window, in half seconds
\* Window lists sorted by start; windows may overlap, nest or repeat.
SceneWindows == {SceneWindow(start, end) : start \in 0..MaxWindowTime, end \in 0..MaxWindowTime}
SortedByStart(windows) ==
  \A i \in 1..(Len(windows) - 1) : windows[i].start <= windows[i + 1].start
SortedWindowLists ==
  {windows \in UNION {[1..n -> {w \in SceneWindows : w.start <= w.end}] : n \in 0..MaxWindows} :
     SortedByStart(windows)}

\* One pass over a stream: the cursor that process_datamosh keeps between the
\* calls, the time last asked for and what the two scans answered.
WindowScan(windows, window_cursor, prev_cursor, time, active, position, queries) ==
  [pc |-> "scan", windows |-> windows, window_cursor |-> window_cursor,
   prev_cursor |-> prev_cursor, time |-> time, active |-> active,
   position |-> position, queries |-> queries]

\* datamosh.rs:300-301: the next query, at a time not before the last one
\* (times are in half seconds, so fps = TimeDen makes vop_index the time).
WindowQuery(time) ==
  /\ dm.pc = "scan"
  /\ time >= dm.time
  /\ LET w == window_index(time, TimeDen, dm.windows, dm.window_cursor)
     IN dm' = WindowScan(dm.windows, w.cursor, dm.window_cursor, time, w.active,
                         window_index_position(time, TimeDen, dm.windows),
                         IF dm.queries < 2 THEN dm.queries + 1 ELSE 2)
  /\ UNCHANGED beside_datamosh

NextWindows == \E time \in 0..(MaxWindowTime + 1) : WindowQuery(time)

InitWindows ==
  /\ InitPreviews
  /\ InitCalls
  /\ InitPipeline
  /\ \E windows \in SortedWindowLists :
       dm = WindowScan(windows, 0, 0, 0, None, None, 0)

SpecWindows == InitWindows /\ [][NextWindows]_vars

\* C34: for every window list sorted by start and every non-decreasing
\* sequence of query times, the cursor scan answers each query as the scan
\* from the front does (the first window with start <= t <= end); the cursor
\* never decreases and every window it has passed ends before the time asked
\* for, so none that covers a later time is skipped.
C34_CursorScanIsLinearScan ==
  (dm.pc = "scan" /\ dm.queries > 0) =>
    /\ dm.active = dm.position
    /\ dm.prev_cursor <= dm.window_cursor
    /\ \A i \in 1..Len(dm.windows) : i <= dm.window_cursor => dm.windows[i].end < dm.time
C34_Witness ==
  /\ dm.pc = "scan" /\ dm.queries = 2
  /\ Len(dm.windows) = 3
  /\ dm.windows[1].end > dm.windows[2].end
  /\ dm.windows[2].end < dm.windows[3].start
  /\ dm.prev_cursor = 0 /\ dm.window_cursor = 2
  /\ dm.active = Some(2)

\* -------------------------------------------------- StartCodeReader, units
\* The units of the input file read as a whole.
WholeFileUnits(source) ==
  IF HasStartCode(source) THEN Segments(FromFirstStartCode(source)) ELSE <<>>
IsPrefix(s, t) == Len(s) <= Len(t) /\ s = SubSeq(t, 1, Len(s))
BeginsWithStartCode(unit) == Len(unit) >= 3 /\ StartCodeAt(unit, 0)
ReaderEnded == dm.pc = "done"

\* C35 as stated: whatever the input and however the reads cut it, once the
\* reader has ended the units it yielded each begin with 00 00 01 and have at
\* least four bytes, and put one after the other they are the input from its
\* first start code to its end.
C35_UnitsCoverInput ==
  ReaderEnded =>
    /\ \A n \in 1..Len(dm.units) :
         BeginsWithStartCode(dm.units[n]) /\ Len(dm.units[n]) >= 4
    /\ Flatten(dm.units) = FromFirstStartCode(dm.source)

\* C35, amended: however the reads cut the input, the units yielded so far
\* are the first units of the input read as a whole, each begins with
\* 00 00 01 and has at least four bytes; when the reader ends without an error
\* they are all of them and make up the input from its first start code to
\* its end; when fewer than four bytes follow the last unit boundary the
\* reader ends with the truncation error, after all the units before those
\* bytes.
C35_UnitsIndependentOfReads ==
  (dm.pc \in {"loop", "done"}) =>
    /\ IsPrefix(dm.units, WholeFileUnits(dm.source))
    /\ \A n \in 1..Len(dm.units) :
         BeginsWithStartCode(dm.units[n]) /\ Len(dm.units[n]) >= 4
    /\ (ReaderEnded /\ dm.result # "Truncated") =>
         /\ dm.units = WholeFileUnits(dm.source)
         /\ Flatten(dm.units) = FromFirstStartCode(dm.source)
    /\ (ReaderEnded /\ dm.result = "Truncated") =>
         /\ LastSegmentShort(dm.source)
         /\ Len(dm.units) = Len(WholeFileUnits(dm.source)) - 1
C35_Witness ==
  /\ ReaderEnded /\ dm.result = "Ok"
  /\ Len(dm.units) >= 2
  /\ dm.source[1] # 0
  /\ \E n \in 1..Len(dm.units) : Len(dm.units[n]) >= 7 /\ StartCodeAt(dm.units[n], 3)

\* ---------------------------------------------------------------- mux args
\* An f64 of the trim range: a number of thousandths, or not finite.
Finite(milli) == [finite |-> TRUE, milli |-> milli]
NotFinite == [finite |-> FALSE, milli |-> 0]

\* normalize_trim_range: None, or the pair <<safe_start, safe_end>>.
normalize_trim_range(start, end) ==
  IF start = None \/ end = None THEN None
  ELSE IF ~Unwrap(start).finite \/ ~Unwrap(end).finite THEN None
  ELSE LET safe_start == Max(Unwrap(start).milli, 0)
           safe_end == Max(Unwrap(end).milli, 0)
       IN IF safe_end <= safe_start THEN None ELSE Some(<<safe_start, safe_end>>)

\* push_trim_args: -ss and -to with three decimals.
push_trim_args(args, trim) ==
  IF trim = None THEN args
  ELSE args \o << Str("-ss"), FormatFps(Unwrap(trim)[1]),
                  Str("-to"), FormatFps(Unwrap(trim)[2]) >>

build_mux_args(temp_video, input_path, output_path, trim, encoding) ==
  LET head == push_trim_args(
                << Str("-y"), Str("-hide_banner"), Str("-loglevel"), Str("error"),
                   Str("-i"), temp_video >>, trim)
      maps == IF encoding.audio_enabled
              THEN << Str("-i"), input_path, Str("-map"), Str("0:v:0"),
                      Str("-map"), Str("1:a?") >>
              ELSE << Str("-map"), Str("0:v:0"), Str("-an") >>
      codec == ToLowercase(UnwrapOr(encoding.audio_codec, Str("aac")))
      audio == IF encoding.audio_enabled
               THEN << Str("-c:a"),
                       IF codec = Str("opus") THEN Str("libopus")
                       ELSE IF codec = Str("copy") THEN Str("copy") ELSE Str("aac"),
                       Str("-b:a"),
                       to_string(UnwrapOr(encoding.audio_bitrate_kbps, U32(192))) \o <<"k">>,
                       Str("-shortest") >>
               ELSE <<>>
      format == ToLowercase(TrimStartMatches(Trim(encoding.format), {Dot}))
      movflags == IF format \in {Str("mp4"), Str("m4v"), Str("mov")}
                  THEN << Str("-movflags"), Str("+faststart") >> ELSE <<>>
  IN head \o maps \o << Str("-c:v"), Str("copy") >> \o audio \o movflags
       \o encoding.extra_mux_args \o <<output_path>>

TrimStarts == {None, Some(Finite(0 - 500)), Some(Finite(0)), Some(Finite(1500)), Some(NotFinite)}
TrimEnds == {None, Some(Finite(0)), Some(Finite(1500)), Some(Finite(4000)), Some(NotFinite)}
MuxEncodings ==
  [audio_enabled : BOOLEAN, audio_codec : {None, Some(Str("opus")), Some(Str("copy")), Some(<<"A", "a", "c">>)},
   audio_bitrate_kbps : {None, Some(U32(128))}, format : EncodeFormats,
   extra_mux_args : {<<>>, <<Str("-metadata"), Str("title=x")>>}]
MuxTempVideo == Str("out.pixelsort.video.mp4")
MuxInputPath == Str("in.mp4")
MuxOutputPath == Str("out.mp4")

\* jobs.rs:220 and :460: the trim range is normalized, then the mux
\* arguments are built from it.
BuildMuxArgs ==
  /\ enc.pc = "mux"
  /\ LET trim_range == normalize_trim_range(enc.trim_start_seconds, enc.trim_end_seconds)
     IN enc' = [enc EXCEPT !.pc = "done", !.trim_range = trim_range,
                  !.args = build_mux_args(MuxTempVideo, MuxInputPath, MuxOutputPath,
                                          trim_range, enc.encoding)]
  /\ UNCHANGED beside_args

NextMux == BuildMuxArgs

InitMux ==
  /\ InitPreviews
  /\ InitPipeline
  /\ dm = IdleDatamosh
  /\ fx = IdleFx
  /\ ff = IdleFf
  /\ \E encoding \in MuxEncodings, start \in TrimStarts, end \in TrimEnds :
       enc = [pc |-> "mux", trim_start_seconds |-> start, trim_end_seconds |-> end,
              encoding |-> encoding, trim_range |-> None, args |-> <<>>]

SpecMux == InitMux /\ [][NextMux]_vars

\* How ffmpeg reads its command line: an option applies to the next file
\* named, which is the input after the next -i at or after `from`, or the
\* output (the last argument) when no -i follows.
FileOfOption(args, from) ==
  LET inputs == {i \in from..(Len(args) - 1) : args[i] = Str("-i")}
  IN IF inputs = {} THEN [kind |-> "output", path |-> args[Len(args)]]
     ELSE [kind |-> "input",
           path |-> args[1 + CHOOSE i \in inputs : \A other \in inputs : i <= other]]
OptionAt(args, name) == {i \in 1..Len(args) : args[i] = Str(name)}

\* C36: when a trim range is set, -ss and -to of the mux invocation apply to
\* the source input (the one that supplies the audio) and to nothing else:
\* never to the temp effect video and never to the output, with audio enabled
\* or disabled.
C36_TrimOnlyOnAudioSource ==
  (enc.pc = "done" /\ enc.trim_range # None) =>
    /\ OptionAt(enc.args, "-ss") # {} /\ OptionAt(enc.args, "-to") # {}
    /\ \A i \in OptionAt(enc.args, "-ss") \cup OptionAt(enc.args, "-to") :
         FileOfOption(enc.args, i) = [kind |-> "input", path |-> MuxInputPath]

\* ---------------------------------------------------------------------
\* Ownership of the entries of the ffmpeg job registry.
\* ---------------------------------------------------------------------

\* A call of ffmpeg_kill answers in this step.
KillStep == \E c \in FfmpegCalls : ff.calls[c].pc = "idle" /\ ff'.calls[c].op = "kill"
\* The task draining the events of child ch ends in this step.
DrainEnds(ch) == ch \in ff.drains /\ ch \notin ff'.drains
\* Call c of ffmpeg_spawn loses the second look at the registry in this step.
SpawnLoses(c) ==
  /\ ff.calls[c].pc = "spawned"
  /\ ff'.calls[c].result = "ffmpeg job id already exists."

\* C39: an entry under job id X names a child spawned under X; the child of
\* a spawn call that finds the id taken is killed and never registered; and
\* an entry leaves the registry only in a step of ffmpeg_kill or when the
\* event stream of the very child it names ends.
C39_EntryRemovedByOwnChild ==
  [][ /\ \A id \in DOMAIN ff'.jobs : ff'.children[ff'.jobs[id]] = id
      /\ \A c \in FfmpegCalls :
           SpawnLoses(c) =>
             /\ ff.calls[c].child \in ff'.killed
             /\ \A id \in DOMAIN ff'.jobs : ff'.jobs[id] # ff.calls[c].child
      /\ \A id \in DOMAIN ff.jobs :
           (id \notin DOMAIN ff'.jobs \/ ff'.jobs[id] # ff.jobs[id]) =>
             KillStep \/ DrainEnds(ff.jobs[id]) ]_vars

\* ---------------------------------------------------------------------
\* The preview tasks of pixelsort_process.  A task is spawned by the frame
\* loop and never awaited: it goes on after the call has returned.
\* ---------------------------------------------------------------------
PreviewOutcomes == {"ok", "failed", "nospawn"}

\* encode_preview_frame, native/preview.rs:224-234: the preview encoder is
\* spawned with -y and the preview path as its output, is written the frame
\* and runs to its end; `wrote` says whether it left a file at the path.
PreviewEncoderRuns(n, t, outcome, wrote) ==
  /\ t \in tasks[n].live
  /\ t.pc = "encode"
  /\ outcome = "ok" => wrote
  /\ outcome = "nospawn" => ~wrote
  /\ files' = IF wrote THEN files \cup {t.path} ELSE files
  /\ tasks' = [tasks EXCEPT ![n].live =
                 (@ \ {t}) \cup {PreviewTask(t.frame, t.path, "exited", outcome)}]
  /\ UNCHANGED <<registry, flags, calls, cancel_ret, job, child>>

\* native/preview.rs:235-244 and jobs.rs:376-385: encode_preview_frame
\* returns (it removes the file of an encoder that failed) and the task
\* clears the latch.
PreviewEncodeReturns(n, t) ==
  /\ t \in tasks[n].live
  /\ t.pc = "exited"
  /\ files' = IF t.outcome = "failed" THEN cleanup_file(files, t.path) ELSE files
  /\ tasks' = [tasks EXCEPT
       ![n].inflight = FALSE,
       ![n].live = IF t.outcome = "ok"
                   THEN (@ \ {t}) \cup {PreviewTask(t.frame, t.path, "emit", t.outcome)}
                   ELSE @ \ {t}]
  /\ UNCHANGED <<registry, flags, calls, cancel_ret, job, child>>

\* jobs.rs:386-388 with emit_preview: the Preview event of a successful
\* encode; the task ends.
PreviewEmit(n, t) ==
  /\ t \in tasks[n].live
  /\ t.pc = "emit"
  /\ tasks' = [tasks EXCEPT ![n].emitted = Append(@, t.frame), ![n].live = @ \ {t}]
  /\ UNCHANGED <<registry, flags, calls, files, cancel_ret, job, child>>

MaxStreamTask == 176   \* bytes the decoder delivers where previews are on
TaskDims == {<<2, 2>>}
TaskFps == {10, 12}
TaskChunks == {16}
LiveTasks(n) == tasks[n].live
NextTask ==
  \/ \E p \in Procs, call \in CallsOf({InputPath}, {<<"j1">>}, {OtherPath}, TaskDims, {TRUE}, TaskFps) :
       Start(p, call, 1) /\ UNCHANGED beside_pipeline
  \/ \E p \in Procs : Validate(p) /\ UNCHANGED beside_pipeline
  \/ \E p \in Procs : SpawnDecoder(p, TRUE) /\ UNCHANGED beside_pipeline
  \/ \E p \in Procs : SpawnEncoder(p, TRUE) /\ UNCHANGED beside_pipeline
  \/ \E p \in Procs : CancelObserved(p) /\ UNCHANGED beside_pipeline
  \/ \E p \in Procs, n \in TaskChunks : HandleStdout(p, n, MaxStreamTask) /\ UNCHANGED beside_pipeline
  \/ \E p \in Procs : BeginFrame(p) /\ UNCHANGED beside_pipeline
  \/ \E p \in Procs : WriteFrame(p, FALSE) /\ UNCHANGED beside_pipeline
  \/ \E p \in Procs, code \in ExitCodes : HandleTerminated(p, code) /\ UNCHANGED beside_pipeline
  \/ \E p \in Procs, code \in ExitCodes : EncoderExit(p, code) /\ UNCHANGED beside_pipeline
  \/ \E p \in Procs : AwaitEncoder(p) /\ UNCHANGED beside_pipeline
  \/ \E p \in Procs, ok \in BOOLEAN : MuxSpawn(p, ok) /\ UNCHANGED beside_pipeline
  \/ \E p \in Procs, ok \in BOOLEAN : MuxExit(p, ok) /\ UNCHANGED beside_pipeline
  \/ pixelsort_cancel(<<"j1">>) /\ UNCHANGED beside_pipeline
  \/ \E t \in LiveTasks(1), outcome \in PreviewOutcomes, wrote \in BOOLEAN :
       PreviewEncoderRuns(1, t, outcome, wrote) /\ UNCHANGED beside_pipeline
  \/ \E t \in LiveTasks(1) : PreviewEncodeReturns(1, t) /\ UNCHANGED beside_pipeline
  \/ \E t \in LiveTasks(1) : PreviewEmit(1, t) /\ UNCHANGED beside_pipeline

SpecTask == Init /\ [][NextTask]_vars

\* C31: once a process call has returned, whatever its result, no file
\* exists at its preview path, a preview task of the call that is still
\* running included.
C31_NoPreviewFileAfterReturn ==
  \A p \in Procs :
    (job[p].pc = "done" /\ job[p].preview_path # None) =>
      Unwrap(job[p].preview_path) \notin files

\* The tasks of call n that hold the latch: spawned, encode not yet returned.
Encoding(n) == {t \in tasks[n].live : t.pc \in {"encode", "exited"}}
\* A task of call n is spawned in this step.
PreviewLaunched(n) == \E t \in tasks'[n].live : t \notin tasks[n].live /\ t.pc = "encode"

MaxStreamJobs == 16    \* bytes a decoder delivers where two calls run
TempLikePath == <<"b", Dot, "pixelsort", Dot, "video", Dot, "mp4">>
MkvPath == <<"b", Dot, "mkv">>
JobsInputs == {InputPath, TempLikePath}
JobsOutputs == {OtherPath, MkvPath}
JobsDims == {<<1, 2>>, <<2, 2>>}
JobsChunks == {16}
JobsExitCodes == {Some(0), Some(1)}
JobsCalls == CallsOf(JobsInputs, JobIds, JobsOutputs, JobsDims, {FALSE}, DefaultFps)

InitJobs ==
  /\ InitPreviews
  /\ InitCalls
  /\ dm = IdleDatamosh
  /\ registry = [id \in JobIds |-> 0]
  /\ flags = [f \in 1..MaxCalls |-> FALSE]
  /\ calls = 0
  /\ files = JobsInputs
  /\ cancel_ret = NoResult
  /\ job = [p \in AllProcs |-> IdleJob]
  /\ child = [p \in AllProcs |-> IdleChild]
  /\ tasks = [n \in 1..MaxCalls |-> IdleTasks]

NextJobs ==
  \/ \E p \in AllProcs, call \in JobsCalls : Start(p, call, MaxCalls) /\ UNCHANGED beside_pipeline
  \/ \E p \in AllProcs : Validate(p) /\ UNCHANGED beside_pipeline
  \/ \E p \in AllProcs : SpawnDecoder(p, TRUE) /\ UNCHANGED beside_pipeline
  \/ \E p \in AllProcs : SpawnEncoder(p, TRUE) /\ UNCHANGED beside_pipeline
  \/ \E p \in AllProcs : CancelObserved(p) /\ UNCHANGED beside_pipeline
  \/ \E p \in AllProcs, n \in JobsChunks : HandleStdout(p, n, MaxStreamJobs) /\ UNCHANGED beside_pipeline
  \/ \E p \in AllProcs : BeginFrame(p) /\ UNCHANGED beside_pipeline
  \/ \E p \in AllProcs : WriteFrame(p, FALSE) /\ UNCHANGED beside_pipeline
  \/ \E p \in AllProcs, code \in JobsExitCodes : HandleTerminated(p, code) /\ UNCHANGED beside_pipeline
  \/ \E p \in AllProcs : EncoderExit(p, Some(0)) /\ UNCHANGED beside_pipeline
  \/ \E p \in AllProcs : AwaitEncoder(p) /\ UNCHANGED beside_pipeline
  \/ \E p \in AllProcs : MuxSpawn(p, TRUE) /\ UNCHANGED beside_pipeline
  \/ \E p \in AllProcs : MuxExit(p, TRUE) /\ UNCHANGED beside_pipeline
  \/ \E p \in AllProcs : Return(p, MaxCalls) /\ UNCHANGED beside_pipeline
  \/ \E id \in JobIds : pixelsort_cancel(id) /\ UNCHANGED beside_pipeline

SpecJobs == InitJobs /\ [][NextJobs]_vars

\* The call in slot p has derived its temp video path.
HasTempVideo(p) == Running(p) /\ job[p].pc # "validate"

\* C37: two calls running at a time under different job ids have different
\* temp video paths, and no step of one call removes the temp video of the
\* other.
C37_TempVideoPerJob ==
  [][ \A p, q \in AllProcs :
        (p # q /\ HasTempVideo(p)' /\ HasTempVideo(q)' /\ job'[p].job_id # job'[q].job_id) =>
          /\ job'[p].temp_video # job'[q].temp_video
          /\ job'[q].temp_video \notin child'[p].cleaned \ child[p].cleaned ]_vars

\* C38: while a call runs under job id J the registry maps J to the cancel
\* flag of that call, whatever other calls are made with the same id.
C38_CancelReachesOwnFlag ==
  \A p \in AllProcs : Running(p) => registry[job[p].job_id] = job[p].cancel_flag

\* C40: a call that passed the same-path check hands the encoder a temp
\* video path other than its input path and passes cleanup_file no path
\* equal to its input path.
C40_InputUntouched ==
  \A p \in AllProcs :
    (job[p].pc # "idle" /\ job[p].result # "SamePath") =>
      /\ child[p].encoder # "none" => job[p].temp_video # job[p].input_path
      /\ job[p].input_path \notin child[p].cleaned
====
